---------------------------- MODULE Spec2Model ----------------------------
(***************************************************************************)
(* Model of the Coda HSLuv pack: the formulas registered in pack.ts and    *)
(* the helpers they call (helpers.ts), with the constants of types.ts.     *)
(*                                                                         *)
(* Every formula is a pure function of its arguments; the host evaluates   *)
(* one call at a time.  A call is one action: it draws the arguments,      *)
(* runs the whole execute() body and leaves the outcome in `result`;       *)
(* Return hands the outcome back and the pack is idle again.  `tables`    *)
(* holds the module-level objects of types.ts, which the formulas read;    *)
(* `earlier` holds the outcomes remembered in a sequence of calls          *)
(* (SpecCalls) and stays empty under Spec.  The exported helpers          *)
(* rotateHue and getLuminance are also called directly (RotateHue,         *)
(* GetLuminance), with arguments no formula of the pack passes them.       *)
(*                                                                         *)
(* Number representation.  TLC has integers only, so every real is kept    *)
(* as a scaled integer and the scale is part of each operator's comment:   *)
(*   - strings are sequences of one-character strings;                     *)
(*   - CMYK components and contrast ratios are in hundredths;              *)
(*   - HSLuv / HPLuv components are in millionths inside the hsluv        *)
(*     package and in hundredths at the formulas' boundary;                *)
(*   - Math.round(x) is floor(x + 1/2) on the exact rational x.  IEEE-754  *)
(*     doubles can differ from the exact rational only when x is an exact  *)
(*     tie k + 1/2 that the double computation misses by one ulp.          *)
(***************************************************************************)
EXTENDS Integers, Sequences, FiniteSets, TLC

VARIABLES pc, call, result, tables, earlier

vars == <<pc, call, result, tables, earlier>>

-----------------------------------------------------------------------------
(* Bounds of the model (inputs the actions draw from).                      *)

\* RGBToCMYK draws b from 0..MaxBlue (r and g range over every channel value).
MaxBlue == 1

\* LinearGradient draws steps from 0..MaxSteps (and the two values around 100).
MaxSteps == 5

\* The schemes draw count from 0..MaxCount (and the two values around 20).
MaxCount == 3

\* A sequence of calls remembers the outcomes of at most MaxRemembered calls.
MaxRemembered == 2

-----------------------------------------------------------------------------
(* Program constants.                                                       *)

\* isValidRgb: the largest channel value.
MaxChannel == 255

\* Scale of CMYK components and of contrast ratios: Math.round(x * 100) / 100.
Hundred == 100

-----------------------------------------------------------------------------
(* Arithmetic helpers.                                                      *)

Min2(a, b) == IF a <= b THEN a ELSE b

Max2(a, b) == IF a >= b THEN a ELSE b

Min3(a, b, c) == Min2(a, Min2(b, c))

\* Math.round(n / d) for d > 0: floor(n/d + 1/2); \div floors, as Math.floor does.
RoundDiv(n, d) == (2 * n + d) \div (2 * d)

-----------------------------------------------------------------------------
(* Outcomes of a call.                                                      *)

Ok(v) == [ok |-> TRUE, val |-> v]

\* throw new coda.UserVisibleError(msg)
Err(msg) == [ok |-> FALSE, val |-> msg]

NoCall == [name |-> "none", args |-> <<>>]

NoResult == [ok |-> TRUE, val |-> <<>>]

-----------------------------------------------------------------------------
(* helpers.ts: validation.                                                  *)

isValidRgb(r, g, b) ==
    /\ r >= 0 /\ r <= MaxChannel
    /\ g >= 0 /\ g <= MaxChannel
    /\ b >= 0 /\ b <= MaxChannel

-----------------------------------------------------------------------------
(* Strings: a string is a sequence of one-character strings.                *)

LowerDigits == <<"0", "1", "2", "3", "4", "5", "6", "7", "8", "9",
                 "a", "b", "c", "d", "e", "f">>

UpperDigits == <<"0", "1", "2", "3", "4", "5", "6", "7", "8", "9",
                 "A", "B", "C", "D", "E", "F">>

\* [0-9A-Fa-f]
IsHexDigit(ch) == \E i \in 1..16 : ch = LowerDigits[i] \/ ch = UpperDigits[i]

\* The value of one hex digit, as parseInt(x, 16) reads it (either case).
DigitValue(ch) == (CHOOSE i \in 1..16 : ch = LowerDigits[i] \/ ch = UpperDigits[i]) - 1

LowerLetters == <<"a", "b", "c", "d", "e", "f", "g", "h", "i", "j", "k", "l", "m",
                  "n", "o", "p", "q", "r", "s", "t", "u", "v", "w", "x", "y", "z">>

UpperLetters == <<"A", "B", "C", "D", "E", "F", "G", "H", "I", "J", "K", "L", "M",
                  "N", "O", "P", "Q", "R", "S", "T", "U", "V", "W", "X", "Y", "Z">>

\* String.prototype.toUpperCase, one character at a time.
UpperChar(ch) ==
    IF \E i \in 1..26 : ch = LowerLetters[i]
    THEN UpperLetters[CHOOSE i \in 1..26 : ch = LowerLetters[i]]
    ELSE ch

toUpperCase(str) == [i \in 1..Len(str) |-> UpperChar(str[i])]

\* Number.prototype.toString(16) for an integer n >= 0: lowercase, no padding.
RECURSIVE toString16(_)
toString16(n) ==
    IF n < 16 THEN <<LowerDigits[n + 1]>>
    ELSE toString16(n \div 16) \o <<LowerDigits[(n % 16) + 1]>>

\* String.prototype.padStart(2, '0')
padStart2(str) == IF Len(str) < 2 THEN <<"0">> \o str ELSE str

-----------------------------------------------------------------------------
(* helpers.ts: validation and hex conversion.                               *)

\* /^#[0-9A-Fa-f]{6}$/.test(hex)
isValidHexColor(hex) ==
    /\ Len(hex) = 7
    /\ hex[1] = "#"
    /\ \A i \in 2..7 : IsHexDigit(hex[i])

\* hex.replace(/^#/, '').match(/.{2}/g).map(x => parseInt(x, 16)), for a hex
\* that passed isValidHexColor (every caller validates first).
hexToRgb(hex) ==
    [i \in 1..3 |-> 16 * DigitValue(hex[2 * i]) + DigitValue(hex[2 * i + 1])]

\* '#' + rgb.map(x => Math.round(x).toString(16).padStart(2, '0')).join('')
\* for integer channels >= 0.
rgbToHex(rgb) ==
    <<"#">> \o padStart2(toString16(rgb[1])) \o padStart2(toString16(rgb[2]))
            \o padStart2(toString16(rgb[3]))

-----------------------------------------------------------------------------
(* helpers.ts: CMYK.  Components are in hundredths (1 is 100).              *)

\* The mutant of blackKey: Math.max in the place of Math.min.
blackKeyMax(r, g, b) == Max2(MaxChannel - r, Max2(MaxChannel - g, MaxChannel - b))

\* 255 * k for k = Math.min(c, m, y), c = 1 - r/255 and so on.
blackKey(r, g, b) == Min3(MaxChannel - r, MaxChannel - g, MaxChannel - b)

\* if (k === 1): the short-circuit that returns {c: 0, m: 0, y: 0, k: 1}.
isFullBlack(r, g, b) == blackKey(r, g, b) = MaxChannel

\* Math.round(((x - k) / (1 - k)) * 100) with x0 = 255 * x and k0 = 255 * k.
cmykComponent(x0, k0) == RoundDiv(Hundred * (x0 - k0), MaxChannel - k0)

rgbToCmyk(r, g, b) ==
    LET k0 == blackKey(r, g, b)
    IN  IF isFullBlack(r, g, b)
        THEN [c |-> 0, m |-> 0, y |-> 0, k |-> Hundred]
        ELSE [c |-> cmykComponent(MaxChannel - r, k0),
              m |-> cmykComponent(MaxChannel - g, k0),
              y |-> cmykComponent(MaxChannel - b, k0),
              k |-> RoundDiv(Hundred * k0, MaxChannel)]

\* Math.round(255 * (1 - c) * (1 - k)) with c and k in hundredths.
cmykChannel(c, k) ==
    RoundDiv(MaxChannel * (Hundred - c) * (Hundred - k), Hundred * Hundred)

cmykToRgb(c, m, y, k) ==
    [r |-> cmykChannel(c, k), g |-> cmykChannel(m, k), b |-> cmykChannel(y, k)]

-----------------------------------------------------------------------------
(* helpers.ts: luminance and contrast.  A linearised channel is kept in     *)
(* units of 1/200000 and a luminance in units of 1/2000000000, the finest   *)
(* fixed point whose sums stay below 2^31.                                  *)

\* Math.pow((v/255 + 0.055) / 1.055, 2.4) for the channel value v (entry v + 1),
\* in units of 1/200000, rounded to nearest; 0 where the linear segment applies.
PowTable ==
    << 0, 0, 0, 0, 0, 0, 0, 0,
       0, 0, 0, 669, 735, 805, 878, 955,
       1036, 1121, 1210, 1302, 1399, 1500, 1605, 1714,
       1827, 1944, 2066, 2192, 2322, 2457, 2597, 2740,
       2889, 3042, 3199, 3361, 3528, 3700, 3876, 4058,
       4244, 4435, 4631, 4832, 5037, 5248, 5464, 5685,
       5911, 6143, 6379, 6621, 6868, 7120, 7378, 7641,
       7909, 8183, 8462, 8747, 9037, 9333, 9634, 9941,
       10254, 10572, 10896, 11226, 11561, 11902, 12249, 12602,
       12961, 13325, 13696, 14072, 14454, 14843, 15237, 15637,
       16044, 16457, 16875, 17300, 17731, 18168, 18612, 19061,
       19517, 19980, 20448, 20923, 21405, 21892, 22386, 22887,
       23394, 23908, 24428, 24954, 25488, 26027, 26574, 27127,
       27686, 28253, 28826, 29405, 29992, 30585, 31185, 31792,
       32406, 33026, 33654, 34288, 34929, 35578, 36233, 36895,
       37564, 38240, 38924, 39614, 40311, 41016, 41727, 42446,
       43172, 43905, 44646, 45393, 46148, 46910, 47680, 48456,
       49240, 50032, 50830, 51637, 52450, 53271, 54100, 54935,
       55779, 56630, 57488, 58354, 59228, 60109, 60997, 61894,
       62798, 63709, 64629, 65556, 66490, 67433, 68383, 69341,
       70307, 71280, 72261, 73251, 74248, 75252, 76265, 77286,
       78314, 79351, 80396, 81448, 82509, 83577, 84654, 85738,
       86831, 87931, 89040, 90157, 91282, 92415, 93557, 94706,
       95864, 97030, 98204, 99387, 100577, 101776, 102984, 104199,
       105423, 106655, 107896, 109145, 110402, 111668, 112942, 114225,
       115516, 116816, 118124, 119440, 120765, 122099, 123441, 124792,
       126151, 127519, 128896, 130281, 131675, 133077, 134489, 135908,
       137337, 138774, 140220, 141675, 143139, 144611, 146092, 147582,
       149081, 150588, 152105, 153630, 155164, 156708, 158260, 159821,
       161390, 162969, 164557, 166154, 167760, 169375, 170999, 172631,
       174273, 175924, 177585, 179254, 180932, 182620, 184316, 186022,
       187737, 189461, 191195, 192937, 194689, 196450, 198220, 200000 >>

\* The mutant of usesLinearSegment: the channel is compared before it is
\* divided by 255.
usesLinearSegmentUnscaled(v) == 100000 * v <= 3928

\* x <= 0.03928 for x = v/255
usesLinearSegment(v) == 100000 * v <= 3928 * MaxChannel

\* x <= 0.03928 ? x / 12.92 : Math.pow((x + 0.055) / 1.055, 2.4), x = v/255
linearise(v) ==
    IF usesLinearSegment(v)
    THEN RoundDiv(200000 * 100 * v, MaxChannel * 1292)
    ELSE PowTable[v + 1]

\* 0.2126 * r + 0.7152 * g + 0.0722 * b over the linearised channels.
getLuminance(hex) ==
    LET rgb == hexToRgb(hex)
    IN  2126 * linearise(rgb[1]) + 7152 * linearise(rgb[2]) + 722 * linearise(rgb[3])

\* a + b = q * d + r for 0 <= a, b < d, without leaving 32 bits.
AddMod(a, b, d) ==
    IF a >= d - b THEN [q |-> 1, r |-> a - (d - b)] ELSE [q |-> 0, r |-> a + b]

\* x * n = q * d + r for 0 <= x < d, by doubling.
RECURSIVE MulDiv(_, _, _)
MulDiv(x, n, d) ==
    IF n = 0 THEN [q |-> 0, r |-> 0]
    ELSE LET h == MulDiv(x, n \div 2, d)
             dbl == AddMod(h.r, h.r, d)
             odd == AddMod(dbl.r, x, d)
         IN  IF n % 2 = 0
             THEN [q |-> 2 * h.q + dbl.q, r |-> dbl.r]
             ELSE [q |-> 2 * h.q + dbl.q + odd.q, r |-> odd.r]

\* Number((hi / lo).toFixed(2)) in hundredths: hi / lo rounded half up to two
\* decimals.
RatioHundredths(hi, lo) ==
    LET frac == MulDiv(hi % lo, Hundred, lo)
    IN  Hundred * (hi \div lo) + frac.q + (IF frac.r >= lo - frac.r THEN 1 ELSE 0)

\* The 0.05 added to each luminance, in units of 1/2000000000.
ContrastFlare == 100000000

\* The mutant of calculateContrastRatio: 0.005 in the place of 0.05.
calculateContrastRatioTenthFlare(color1, color2) ==
    LET l1 == getLuminance(color1)
        l2 == getLuminance(color2)
    IN  RatioHundredths(Max2(l1, l2) + ContrastFlare \div 10,
                        Min2(l1, l2) + ContrastFlare \div 10)

\* The mutant of calculateContrastRatio: l1 over l2, without Math.max / Math.min.
calculateContrastRatioUnordered(color1, color2) ==
    RatioHundredths(getLuminance(color1) + ContrastFlare, getLuminance(color2) + ContrastFlare)

\* (Math.max(l1, l2) + 0.05) / (Math.min(l1, l2) + 0.05), to two decimals.
calculateContrastRatio(color1, color2) ==
    LET l1 == getLuminance(color1)
        l2 == getLuminance(color2)
    IN  RatioHundredths(Max2(l1, l2) + ContrastFlare, Min2(l1, l2) + ContrastFlare)

-----------------------------------------------------------------------------
(* types.ts: WCAG_CONTRAST_RATIOS, in hundredths.                           *)

\* types.ts: the two objects of constants the module exports, as they are
\* when the pack is loaded.  The variable tables holds them while the pack runs.
InitialTables ==
    [WCAG_CONTRAST_RATIOS |->
        [AA_NORMAL |-> 450, AA_LARGE |-> 300, AAA_NORMAL |-> 700, AAA_LARGE |-> 450],
     STANDARD_COLORS |->
        [BLACK |-> <<"#", "0", "0", "0", "0", "0", "0">>,
         WHITE |-> <<"#", "F", "F", "F", "F", "F", "F">>]]

\* The mutant of tablesAfterCall: a call writes the AA threshold over the AAA
\* threshold.
tablesAfterCallLowered(t) ==
    [t EXCEPT !.WCAG_CONTRAST_RATIOS.AAA_NORMAL = t.WCAG_CONTRAST_RATIOS.AA_NORMAL]

\* as const, and no assignment to either object anywhere in the pack: a
\* call leaves the tables as it found them.
tablesAfterCall(t) == t

\* The mutant of AA_NORMAL: the AAA entry is read.
AA_NORMAL_fromAAA == tables.WCAG_CONTRAST_RATIOS.AAA_NORMAL

\* WCAG_CONTRAST_RATIOS.AA_NORMAL and the others, read when they are used.
AA_NORMAL == tables.WCAG_CONTRAST_RATIOS.AA_NORMAL

AA_LARGE == tables.WCAG_CONTRAST_RATIOS.AA_LARGE

AAA_NORMAL == tables.WCAG_CONTRAST_RATIOS.AAA_NORMAL

AAA_LARGE == tables.WCAG_CONTRAST_RATIOS.AAA_LARGE

\* The mutant of checkAccessibility: the large and normal thresholds swapped.
checkAccessibilitySwapped(foreground, background, level, size) ==
    LET ratio == calculateContrastRatio(foreground, background)
    IN  IF level = "AA"
        THEN (IF size = "large" THEN ratio >= AA_NORMAL ELSE ratio >= AA_LARGE)
        ELSE IF level = "AAA"
        THEN (IF size = "large" THEN ratio >= AAA_NORMAL ELSE ratio >= AAA_LARGE)
        ELSE FALSE

checkAccessibility(foreground, background, level, size) ==
    LET ratio == calculateContrastRatio(foreground, background)
    IN  IF level = "AA"
        THEN (IF size = "large" THEN ratio >= AA_LARGE ELSE ratio >= AA_NORMAL)
        ELSE IF level = "AAA"
        THEN (IF size = "large" THEN ratio >= AAA_LARGE ELSE ratio >= AAA_NORMAL)
        ELSE FALSE

-----------------------------------------------------------------------------
(* helpers.ts: colour names.                                                *)

ColorNames ==
    << [hex |-> <<"#", "F", "F", "0", "0", "0", "0">>, name |-> "Red"],
       [hex |-> <<"#", "0", "0", "F", "F", "0", "0">>, name |-> "Lime"],
       [hex |-> <<"#", "0", "0", "0", "0", "F", "F">>, name |-> "Blue"],
       [hex |-> <<"#", "F", "F", "F", "F", "0", "0">>, name |-> "Yellow"],
       [hex |-> <<"#", "F", "F", "0", "0", "F", "F">>, name |-> "Magenta"],
       [hex |-> <<"#", "0", "0", "F", "F", "F", "F">>, name |-> "Cyan"],
       [hex |-> <<"#", "0", "0", "0", "0", "0", "0">>, name |-> "Black"],
       [hex |-> <<"#", "F", "F", "F", "F", "F", "F">>, name |-> "White"] >>

\* colorNames[color.toUpperCase()] || 'Unknown'
getColorName(color) ==
    LET key == toUpperCase(color)
    IN  IF \E i \in 1..Len(ColorNames) : ColorNames[i].hex = key
        THEN ColorNames[CHOOSE i \in 1..Len(ColorNames) : ColorNames[i].hex = key].name
        ELSE "Unknown"

-----------------------------------------------------------------------------
(* The hsluv package (class Hsluv).  Its conversions are the pipeline       *)
(* sRGB -> linear RGB -> XYZ -> LUV -> LCh -> HSLuv / HPLuv and back, in    *)
(* double precision.  The model holds their values at the colours the       *)
(* actions draw, components in millionths: hue in degrees, saturation,      *)
(* percent and lightness in percent.  The inverse tables hold the channels  *)
(* after the package's own Math.round(channel * 255).                       *)

HsluvForwardTable ==
    << [rgb |-> <<0, 0, 0>>, hsl |-> <<0, 0, 0>>],
       [rgb |-> <<255, 255, 255>>, hsl |-> <<0, 0, 100000000>>],
       [rgb |-> <<255, 0, 0>>, hsl |-> <<12177051, 100000000, 53237116>>],
       [rgb |-> <<0, 255, 0>>, hsl |-> <<127715013, 100000000, 87735519>>],
       [rgb |-> <<0, 0, 255>>, hsl |-> <<265874320, 100000000, 32300873>>],
       [rgb |-> <<255, 255, 0>>, hsl |-> <<85874320, 100000000, 97138559>>],
       [rgb |-> <<0, 255, 255>>, hsl |-> <<192177051, 100000000, 91114752>>],
       [rgb |-> <<255, 0, 255>>, hsl |-> <<307715013, 100000000, 60322731>>],
       [rgb |-> <<128, 128, 128>>, hsl |-> <<0, 0, 53585013>>],
       [rgb |-> <<149, 149, 149>>, hsl |-> <<0, 0, 61701114>>],
       [rgb |-> <<89, 89, 89>>, hsl |-> <<0, 0, 37824249>>],
       [rgb |-> <<64, 65, 0>>, hsl |-> <<87105606, 100000000, 26362928>>],
       [rgb |-> <<255, 255, 8>>, hsl |-> <<85874320, 100000000, 97145684>>],
       [rgb |-> <<2, 244, 255>>, hsl |-> <<199676318, 100000000, 87935210>>],
       [rgb |-> <<18, 52, 86>>, hsl |-> <<248609388, 85433286, 21042472>>],
       [rgb |-> <<171, 205, 239>>, hsl |-> <<239808667, 69114357, 81044485>>],
       [rgb |-> <<219, 168, 150>>, hsl |-> <<29997860, 44341843, 73068434>>],
       [rgb |-> <<210, 111, 45>>, hsl |-> <<30000480, 88233093, 57329786>>],
       [rgb |-> <<27, 216, 240>>, hsl |-> <<209997867, 98165795, 79404626>>],
       [rgb |-> <<201, 225, 231>>, hsl |-> <<210000659, 29169293, 87986282>>],
       [rgb |-> <<117, 84, 57>>, hsl |-> <<42175085, 57124296, 38583026>>],
       [rgb |-> <<96, 72, 54>>, hsl |-> <<42177873, 46351546, 32674568>>],
       [rgb |-> <<231, 201, 9>>, hsl |-> <<72176164, 99454251, 81172293>>],
       [rgb |-> <<198, 186, 147>>, hsl |-> <<72177256, 36899557, 75594565>>],
       [rgb |-> <<204, 252, 0>>, hsl |-> <<102176858, 100000000, 92776400>>],
       [rgb |-> <<192, 237, 15>>, hsl |-> <<102177564, 99211285, 87876444>>],
       [rgb |-> <<60, 189, 156>>, hsl |-> <<162175446, 88195667, 69294299>>],
       [rgb |-> <<138, 192, 174>>, hsl |-> <<162178608, 43882587, 73647652>>] >>

HpluvForwardTable ==
    << [rgb |-> <<0, 0, 0>>, hpl |-> <<0, 0, 0>>],
       [rgb |-> <<255, 255, 255>>, hpl |-> <<0, 0, 100000000>>],
       [rgb |-> <<255, 0, 0>>, hpl |-> <<12177051, 426746789, 53237116>>],
       [rgb |-> <<0, 255, 0>>, hpl |-> <<127715013, 490145375, 87735519>>],
       [rgb |-> <<0, 0, 255>>, hpl |-> <<265874320, 513412697, 32300873>>],
       [rgb |-> <<255, 255, 0>>, hpl |-> <<85874320, 1784235918, 97138559>>],
       [rgb |-> <<0, 255, 255>>, hpl |-> <<192177051, 369190534, 91114752>>],
       [rgb |-> <<255, 0, 255>>, hpl |-> <<307715013, 289042784, 60322731>>],
       [rgb |-> <<128, 128, 128>>, hpl |-> <<0, 0, 53585013>>],
       [rgb |-> <<149, 149, 149>>, hpl |-> <<0, 0, 61701114>>],
       [rgb |-> <<89, 89, 89>>, hpl |-> <<0, 0, 37824249>>],
       [rgb |-> <<64, 65, 0>>, hpl |-> <<87105606, 140067461, 26362928>>],
       [rgb |-> <<255, 255, 8>>, hpl |-> <<85874320, 1783392372, 97145684>>],
       [rgb |-> <<2, 244, 255>>, hpl |-> <<199676318, 260745604, 87935210>>],
       [rgb |-> <<18, 52, 86>>, hpl |-> <<248609388, 179065876, 21042472>>],
       [rgb |-> <<171, 205, 239>>, hpl |-> <<239808667, 81203162, 81044485>>],
       [rgb |-> <<219, 168, 150>>, hpl |-> <<29997860, 68883850, 73068434>>],
       [rgb |-> <<210, 111, 45>>, hpl |-> <<30000480, 205154742, 57329786>>],
       [rgb |-> <<27, 216, 240>>, hpl |-> <<209997867, 133388424, 79404626>>],
       [rgb |-> <<201, 225, 231>>, hpl |-> <<210000659, 55760122, 87986282>>],
       [rgb |-> <<117, 84, 57>>, hpl |-> <<42175085, 105579131, 38583026>>],
       [rgb |-> <<96, 72, 54>>, hpl |-> <<42177873, 85664946, 32674568>>],
       [rgb |-> <<231, 201, 9>>, hpl |-> <<72176164, 201208398, 81172293>>],
       [rgb |-> <<198, 186, 147>>, hpl |-> <<72177256, 52501021, 75594565>>],
       [rgb |-> <<204, 252, 0>>, hpl |-> <<102176858, 690099094, 92776400>>],
       [rgb |-> <<192, 237, 15>>, hpl |-> <<102177564, 371414618, 87876444>>],
       [rgb |-> <<60, 189, 156>>, hpl |-> <<162175446, 97258178, 69294299>>],
       [rgb |-> <<138, 192, 174>>, hpl |-> <<162178608, 48390484, 73647652>>] >>

HsluvInverseTable ==
    << [hsl |-> <<0, 0, 0>>, rgb |-> <<0, 0, 0>>],
       [hsl |-> <<0, 0, 100000000>>, rgb |-> <<255, 255, 255>>],
       [hsl |-> <<12180000, 100000000, 53240000>>, rgb |-> <<255, 0, 0>>],
       [hsl |-> <<127720000, 100000000, 87740000>>, rgb |-> <<1, 255, 1>>],
       [hsl |-> <<265870000, 100000000, 32300000>>, rgb |-> <<0, 0, 255>>],
       [hsl |-> <<85870000, 100000000, 97140000>>, rgb |-> <<255, 255, 5>>],
       [hsl |-> <<192180000, 100000000, 91110000>>, rgb |-> <<0, 255, 255>>],
       [hsl |-> <<307720000, 100000000, 60320000>>, rgb |-> <<255, 0, 255>>],
       [hsl |-> <<0, 0, 53590000>>, rgb |-> <<128, 128, 128>>],
       [hsl |-> <<0, 0, 61700000>>, rgb |-> <<149, 149, 149>>],
       [hsl |-> <<0, 0, 37820000>>, rgb |-> <<89, 89, 89>>],
       [hsl |-> <<87110000, 100000000, 26360000>>, rgb |-> <<64, 65, 0>>],
       [hsl |-> <<85870000, 100000000, 97150000>>, rgb |-> <<255, 255, 15>>],
       [hsl |-> <<199680000, 100000000, 87940000>>, rgb |-> <<4, 244, 255>>],
       [hsl |-> <<248610000, 85430000, 21040000>>, rgb |-> <<18, 52, 86>>],
       [hsl |-> <<239810000, 69110000, 81040000>>, rgb |-> <<171, 205, 239>>],
       [hsl |-> <<30000000, 44340000, 73070000>>, rgb |-> <<219, 168, 150>>],
       [hsl |-> <<30000000, 88230000, 57330000>>, rgb |-> <<210, 111, 45>>],
       [hsl |-> <<210000000, 98170000, 79400000>>, rgb |-> <<27, 216, 240>>],
       [hsl |-> <<210000000, 29170000, 87990000>>, rgb |-> <<201, 225, 231>>],
       [hsl |-> <<42180000, 57120000, 38580000>>, rgb |-> <<117, 84, 57>>],
       [hsl |-> <<42180000, 46350000, 32670000>>, rgb |-> <<96, 72, 54>>],
       [hsl |-> <<72180000, 99450000, 81170000>>, rgb |-> <<231, 201, 9>>],
       [hsl |-> <<72180000, 36900000, 75590000>>, rgb |-> <<198, 186, 147>>],
       [hsl |-> <<102180000, 100000000, 92780000>>, rgb |-> <<204, 252, 0>>],
       [hsl |-> <<102180000, 99210000, 87880000>>, rgb |-> <<192, 237, 15>>],
       [hsl |-> <<162180000, 88200000, 69290000>>, rgb |-> <<60, 189, 156>>],
       [hsl |-> <<162180000, 43880000, 73650000>>, rgb |-> <<138, 192, 174>>],
       [hsl |-> <<360000000, 50000000, 50000000>>, rgb |-> <<188, 86, 110>>],
       [hsl |-> <<0, 100000000, 53240000>>, rgb |-> <<249, 0, 107>>],
       [hsl |-> <<180000000, 50000000, 50000000>>, rgb |-> <<86, 127, 121>>],
       [hsl |-> <<360000000, 100000000, 100000000>>, rgb |-> <<255, 255, 255>>],
       [hsl |-> <<13177051, 100000000, 53237116>>, rgb |-> <<250, 30, 0>>],
       [hsl |-> <<14177051, 100000000, 53237116>>, rgb |-> <<246, 43, 0>>],
       [hsl |-> <<15177051, 100000000, 53237116>>, rgb |-> <<241, 52, 0>>],
       [hsl |-> <<16177051, 100000000, 53237116>>, rgb |-> <<237, 59, 0>>],
       [hsl |-> <<17177051, 100000000, 53237116>>, rgb |-> <<234, 65, 0>>],
       [hsl |-> <<18177051, 100000000, 53237116>>, rgb |-> <<230, 70, 0>>],
       [hsl |-> <<19177051, 100000000, 53237116>>, rgb |-> <<227, 74, 0>>],
       [hsl |-> <<20177051, 100000000, 53237116>>, rgb |-> <<224, 78, 0>>],
       [hsl |-> <<21177051, 100000000, 53237116>>, rgb |-> <<221, 81, 0>>],
       [hsl |-> <<22177051, 100000000, 53237116>>, rgb |-> <<218, 84, 0>>],
       [hsl |-> <<23177051, 100000000, 53237116>>, rgb |-> <<216, 86, 0>>],
       [hsl |-> <<24177051, 100000000, 53237116>>, rgb |-> <<213, 89, 0>>],
       [hsl |-> <<25177051, 100000000, 53237116>>, rgb |-> <<211, 91, 0>>],
       [hsl |-> <<26177051, 100000000, 53237116>>, rgb |-> <<208, 93, 0>>],
       [hsl |-> <<27177051, 100000000, 53237116>>, rgb |-> <<206, 95, 0>>],
       [hsl |-> <<28177051, 100000000, 53237116>>, rgb |-> <<204, 96, 0>>],
       [hsl |-> <<29177051, 100000000, 53237116>>, rgb |-> <<202, 98, 0>>],
       [hsl |-> <<30177051, 100000000, 53237116>>, rgb |-> <<200, 99, 0>>],
       [hsl |-> <<31177051, 100000000, 53237116>>, rgb |-> <<198, 101, 0>>],
       [hsl |-> <<12177051, 100000000, 53237116>>, rgb |-> <<255, 0, 0>>],
       [hsl |-> <<11177051, 100000000, 53237116>>, rgb |-> <<254, 0, 30>>],
       [hsl |-> <<10177051, 100000000, 53237116>>, rgb |-> <<254, 0, 45>>],
       [hsl |-> <<9177051, 100000000, 53237116>>, rgb |-> <<254, 0, 56>>],
       [hsl |-> <<8177051, 100000000, 53237116>>, rgb |-> <<253, 0, 64>>],
       [hsl |-> <<7177051, 100000000, 53237116>>, rgb |-> <<253, 0, 72>>],
       [hsl |-> <<6177051, 100000000, 53237116>>, rgb |-> <<252, 0, 78>>],
       [hsl |-> <<5177051, 100000000, 53237116>>, rgb |-> <<252, 0, 84>>],
       [hsl |-> <<4177051, 100000000, 53237116>>, rgb |-> <<251, 0, 89>>],
       [hsl |-> <<3177051, 100000000, 53237116>>, rgb |-> <<251, 0, 94>>],
       [hsl |-> <<2177051, 100000000, 53237116>>, rgb |-> <<250, 0, 99>>],
       [hsl |-> <<1177051, 100000000, 53237116>>, rgb |-> <<250, 0, 103>>],
       [hsl |-> <<177051, 100000000, 53237116>>, rgb |-> <<249, 0, 107>>],
       [hsl |-> <<359177051, 100000000, 53237116>>, rgb |-> <<249, 0, 111>>],
       [hsl |-> <<358177051, 100000000, 53237116>>, rgb |-> <<248, 0, 114>>],
       [hsl |-> <<357177051, 100000000, 53237116>>, rgb |-> <<248, 0, 118>>],
       [hsl |-> <<356177051, 100000000, 53237116>>, rgb |-> <<248, 0, 121>>],
       [hsl |-> <<355177051, 100000000, 53237116>>, rgb |-> <<247, 0, 124>>],
       [hsl |-> <<354177051, 100000000, 53237116>>, rgb |-> <<247, 0, 127>>],
       [hsl |-> <<353177051, 100000000, 53237116>>, rgb |-> <<246, 0, 130>>],
       [hsl |-> <<42177051, 100000000, 53237116>>, rgb |-> <<181, 111, 0>>],
       [hsl |-> <<72177051, 100000000, 53237116>>, rgb |-> <<146, 127, 0>>],
       [hsl |-> <<102177051, 100000000, 53237116>>, rgb |-> <<110, 137, 0>>],
       [hsl |-> <<132177051, 100000000, 53237116>>, rgb |-> <<0, 147, 51>>],
       [hsl |-> <<162177051, 100000000, 53237116>>, rgb |-> <<0, 144, 116>>],
       [hsl |-> <<192177051, 100000000, 53237116>>, rgb |-> <<0, 142, 142>>],
       [hsl |-> <<222177051, 100000000, 53237116>>, rgb |-> <<0, 139, 169>>],
       [hsl |-> <<252177051, 100000000, 53237116>>, rgb |-> <<0, 128, 231>>],
       [hsl |-> <<282177051, 100000000, 53237116>>, rgb |-> <<174, 75, 255>>],
       [hsl |-> <<312177051, 100000000, 53237116>>, rgb |-> <<227, 0, 215>>],
       [hsl |-> <<342177051, 100000000, 53237116>>, rgb |-> <<242, 0, 157>>],
       [hsl |-> <<12177051, 100000000, 0>>, rgb |-> <<0, 0, 0>>],
       [hsl |-> <<12177051, 100000000, 100000000>>, rgb |-> <<255, 255, 255>>],
       [hsl |-> <<12177051, 100000000, 50000000>>, rgb |-> <<239, 0, 0>>],
       [hsl |-> <<12177051, 100000000, 33333333>>, rgb |-> <<162, 0, 0>>],
       [hsl |-> <<12177051, 100000000, 66666667>>, rgb |-> <<255, 121, 121>>],
       [hsl |-> <<12177051, 100000000, 5263158>>, rgb |-> <<46, 0, 0>>],
       [hsl |-> <<12177051, 100000000, 10526316>>, rgb |-> <<67, 0, 0>>],
       [hsl |-> <<12177051, 100000000, 15789474>>, rgb |-> <<88, 0, 0>>],
       [hsl |-> <<12177051, 100000000, 21052632>>, rgb |-> <<109, 0, 0>>],
       [hsl |-> <<12177051, 100000000, 26315789>>, rgb |-> <<131, 0, 0>>],
       [hsl |-> <<12177051, 100000000, 31578947>>, rgb |-> <<154, 0, 0>>],
       [hsl |-> <<12177051, 100000000, 36842105>>, rgb |-> <<178, 0, 0>>],
       [hsl |-> <<12177051, 100000000, 42105263>>, rgb |-> <<202, 0, 0>>],
       [hsl |-> <<12177051, 100000000, 47368421>>, rgb |-> <<227, 0, 0>>],
       [hsl |-> <<12177051, 100000000, 52631579>>, rgb |-> <<252, 0, 0>>],
       [hsl |-> <<12177051, 100000000, 57894737>>, rgb |-> <<255, 68, 68>>],
       [hsl |-> <<12177051, 100000000, 63157895>>, rgb |-> <<255, 102, 102>>],
       [hsl |-> <<12177051, 100000000, 68421053>>, rgb |-> <<255, 129, 129>>],
       [hsl |-> <<12177051, 100000000, 73684211>>, rgb |-> <<255, 153, 153>>],
       [hsl |-> <<12177051, 100000000, 78947368>>, rgb |-> <<255, 175, 175>>],
       [hsl |-> <<12177051, 100000000, 84210526>>, rgb |-> <<255, 195, 195>>],
       [hsl |-> <<12177051, 100000000, 89473684>>, rgb |-> <<255, 216, 216>>],
       [hsl |-> <<12177051, 100000000, 94736842>>, rgb |-> <<255, 236, 236>>],
       [hsl |-> <<249609388, 85433286, 21042472>>, rgb |-> <<18, 52, 87>>],
       [hsl |-> <<250609388, 85433286, 21042472>>, rgb |-> <<18, 51, 89>>],
       [hsl |-> <<251609388, 85433286, 21042472>>, rgb |-> <<18, 51, 90>>],
       [hsl |-> <<252609388, 85433286, 21042472>>, rgb |-> <<19, 51, 92>>],
       [hsl |-> <<253609388, 85433286, 21042472>>, rgb |-> <<19, 50, 94>>],
       [hsl |-> <<254609388, 85433286, 21042472>>, rgb |-> <<19, 50, 96>>],
       [hsl |-> <<255609388, 85433286, 21042472>>, rgb |-> <<19, 49, 98>>],
       [hsl |-> <<256609388, 85433286, 21042472>>, rgb |-> <<20, 49, 100>>],
       [hsl |-> <<257609388, 85433286, 21042472>>, rgb |-> <<20, 48, 103>>],
       [hsl |-> <<258609388, 85433286, 21042472>>, rgb |-> <<20, 47, 106>>],
       [hsl |-> <<259609388, 85433286, 21042472>>, rgb |-> <<21, 46, 110>>],
       [hsl |-> <<260609388, 85433286, 21042472>>, rgb |-> <<21, 45, 113>>],
       [hsl |-> <<261609388, 85433286, 21042472>>, rgb |-> <<22, 44, 118>>],
       [hsl |-> <<262609388, 85433286, 21042472>>, rgb |-> <<23, 42, 123>>],
       [hsl |-> <<263609388, 85433286, 21042472>>, rgb |-> <<24, 39, 130>>],
       [hsl |-> <<264609388, 85433286, 21042472>>, rgb |-> <<25, 35, 138>>],
       [hsl |-> <<265609388, 85433286, 21042472>>, rgb |-> <<26, 29, 148>>],
       [hsl |-> <<266609388, 85433286, 21042472>>, rgb |-> <<34, 27, 149>>],
       [hsl |-> <<267609388, 85433286, 21042472>>, rgb |-> <<41, 26, 145>>],
       [hsl |-> <<248609388, 85433286, 21042472>>, rgb |-> <<18, 52, 86>>],
       [hsl |-> <<247609388, 85433286, 21042472>>, rgb |-> <<18, 52, 85>>],
       [hsl |-> <<246609388, 85433286, 21042472>>, rgb |-> <<18, 52, 84>>],
       [hsl |-> <<245609388, 85433286, 21042472>>, rgb |-> <<18, 53, 82>>],
       [hsl |-> <<244609388, 85433286, 21042472>>, rgb |-> <<18, 53, 81>>],
       [hsl |-> <<243609388, 85433286, 21042472>>, rgb |-> <<17, 53, 80>>],
       [hsl |-> <<242609388, 85433286, 21042472>>, rgb |-> <<17, 53, 80>>],
       [hsl |-> <<241609388, 85433286, 21042472>>, rgb |-> <<17, 53, 79>>],
       [hsl |-> <<240609388, 85433286, 21042472>>, rgb |-> <<17, 53, 78>>],
       [hsl |-> <<239609388, 85433286, 21042472>>, rgb |-> <<17, 54, 77>>],
       [hsl |-> <<238609388, 85433286, 21042472>>, rgb |-> <<17, 54, 76>>],
       [hsl |-> <<237609388, 85433286, 21042472>>, rgb |-> <<17, 54, 75>>],
       [hsl |-> <<236609388, 85433286, 21042472>>, rgb |-> <<17, 54, 75>>],
       [hsl |-> <<235609388, 85433286, 21042472>>, rgb |-> <<17, 54, 74>>],
       [hsl |-> <<234609388, 85433286, 21042472>>, rgb |-> <<17, 54, 73>>],
       [hsl |-> <<233609388, 85433286, 21042472>>, rgb |-> <<17, 54, 73>>],
       [hsl |-> <<232609388, 85433286, 21042472>>, rgb |-> <<17, 54, 72>>],
       [hsl |-> <<231609388, 85433286, 21042472>>, rgb |-> <<17, 54, 72>>],
       [hsl |-> <<230609388, 85433286, 21042472>>, rgb |-> <<16, 55, 71>>],
       [hsl |-> <<229609388, 85433286, 21042472>>, rgb |-> <<16, 55, 71>>],
       [hsl |-> <<278609388, 85433286, 21042472>>, rgb |-> <<70, 22, 120>>],
       [hsl |-> <<308609388, 85433286, 21042472>>, rgb |-> <<89, 19, 88>>],
       [hsl |-> <<338609388, 85433286, 21042472>>, rgb |-> <<96, 16, 65>>],
       [hsl |-> <<8609388, 85433286, 21042472>>, rgb |-> <<103, 14, 26>>],
       [hsl |-> <<38609388, 85433286, 21042472>>, rgb |-> <<75, 43, 13>>],
       [hsl |-> <<68609388, 85433286, 21042472>>, rgb |-> <<60, 50, 13>>],
       [hsl |-> <<98609388, 85433286, 21042472>>, rgb |-> <<46, 54, 13>>],
       [hsl |-> <<128609388, 85433286, 21042472>>, rgb |-> <<13, 59, 16>>],
       [hsl |-> <<158609388, 85433286, 21042472>>, rgb |-> <<14, 57, 45>>],
       [hsl |-> <<188609388, 85433286, 21042472>>, rgb |-> <<15, 56, 55>>],
       [hsl |-> <<218609388, 85433286, 21042472>>, rgb |-> <<16, 55, 65>>],
       [hsl |-> <<248609388, 85433286, 0>>, rgb |-> <<0, 0, 0>>],
       [hsl |-> <<248609388, 85433286, 100000000>>, rgb |-> <<255, 255, 255>>],
       [hsl |-> <<248609388, 85433286, 50000000>>, rgb |-> <<52, 122, 192>>],
       [hsl |-> <<248609388, 85433286, 33333333>>, rgb |-> <<32, 80, 129>>],
       [hsl |-> <<248609388, 85433286, 66666667>>, rgb |-> <<102, 165, 242>>],
       [hsl |-> <<248609388, 85433286, 5263158>>, rgb |-> <<4, 18, 35>>],
       [hsl |-> <<248609388, 85433286, 10526316>>, rgb |-> <<7, 29, 52>>],
       [hsl |-> <<248609388, 85433286, 15789474>>, rgb |-> <<12, 41, 69>>],
       [hsl |-> <<248609388, 85433286, 21052632>>, rgb |-> <<18, 52, 86>>],
       [hsl |-> <<248609388, 85433286, 26315789>>, rgb |-> <<24, 64, 104>>],
       [hsl |-> <<248609388, 85433286, 31578947>>, rgb |-> <<30, 76, 123>>],
       [hsl |-> <<248609388, 85433286, 36842105>>, rgb |-> <<36, 89, 142>>],
       [hsl |-> <<248609388, 85433286, 42105263>>, rgb |-> <<42, 102, 162>>],
       [hsl |-> <<248609388, 85433286, 47368421>>, rgb |-> <<49, 115, 182>>],
       [hsl |-> <<248609388, 85433286, 52631579>>, rgb |-> <<55, 129, 202>>],
       [hsl |-> <<248609388, 85433286, 57894737>>, rgb |-> <<62, 143, 223>>],
       [hsl |-> <<248609388, 85433286, 63157895>>, rgb |-> <<77, 156, 240>>],
       [hsl |-> <<248609388, 85433286, 68421053>>, rgb |-> <<112, 170, 243>>],
       [hsl |-> <<248609388, 85433286, 73684211>>, rgb |-> <<141, 183, 245>>],
       [hsl |-> <<248609388, 85433286, 78947368>>, rgb |-> <<166, 197, 247>>],
       [hsl |-> <<248609388, 85433286, 84210526>>, rgb |-> <<190, 211, 249>>],
       [hsl |-> <<248609388, 85433286, 89473684>>, rgb |-> <<212, 226, 251>>],
       [hsl |-> <<248609388, 85433286, 94736842>>, rgb |-> <<234, 240, 253>>],
       [hsl |-> <<240808667, 69114357, 81044485>>, rgb |-> <<172, 205, 239>>],
       [hsl |-> <<241808667, 69114357, 81044485>>, rgb |-> <<174, 204, 239>>],
       [hsl |-> <<242808667, 69114357, 81044485>>, rgb |-> <<175, 204, 239>>],
       [hsl |-> <<243808667, 69114357, 81044485>>, rgb |-> <<176, 204, 239>>],
       [hsl |-> <<244808667, 69114357, 81044485>>, rgb |-> <<177, 204, 239>>],
       [hsl |-> <<245808667, 69114357, 81044485>>, rgb |-> <<178, 203, 239>>],
       [hsl |-> <<246808667, 69114357, 81044485>>, rgb |-> <<179, 203, 239>>],
       [hsl |-> <<247808667, 69114357, 81044485>>, rgb |-> <<180, 203, 239>>],
       [hsl |-> <<248808667, 69114357, 81044485>>, rgb |-> <<182, 202, 239>>],
       [hsl |-> <<249808667, 69114357, 81044485>>, rgb |-> <<183, 202, 239>>],
       [hsl |-> <<250808667, 69114357, 81044485>>, rgb |-> <<184, 202, 239>>],
       [hsl |-> <<251808667, 69114357, 81044485>>, rgb |-> <<185, 202, 239>>],
       [hsl |-> <<252808667, 69114357, 81044485>>, rgb |-> <<186, 201, 239>>],
       [hsl |-> <<253808667, 69114357, 81044485>>, rgb |-> <<187, 201, 239>>],
       [hsl |-> <<254808667, 69114357, 81044485>>, rgb |-> <<188, 201, 239>>],
       [hsl |-> <<255808667, 69114357, 81044485>>, rgb |-> <<189, 201, 239>>],
       [hsl |-> <<256808667, 69114357, 81044485>>, rgb |-> <<190, 200, 239>>],
       [hsl |-> <<257808667, 69114357, 81044485>>, rgb |-> <<191, 200, 239>>],
       [hsl |-> <<258808667, 69114357, 81044485>>, rgb |-> <<191, 200, 239>>],
       [hsl |-> <<239808667, 69114357, 81044485>>, rgb |-> <<171, 205, 239>>],
       [hsl |-> <<238808667, 69114357, 81044485>>, rgb |-> <<170, 205, 239>>],
       [hsl |-> <<237808667, 69114357, 81044485>>, rgb |-> <<168, 206, 239>>],
       [hsl |-> <<236808667, 69114357, 81044485>>, rgb |-> <<167, 206, 239>>],
       [hsl |-> <<235808667, 69114357, 81044485>>, rgb |-> <<166, 206, 239>>],
       [hsl |-> <<234808667, 69114357, 81044485>>, rgb |-> <<164, 207, 239>>],
       [hsl |-> <<233808667, 69114357, 81044485>>, rgb |-> <<163, 207, 239>>],
       [hsl |-> <<232808667, 69114357, 81044485>>, rgb |-> <<161, 207, 239>>],
       [hsl |-> <<231808667, 69114357, 81044485>>, rgb |-> <<159, 208, 239>>],
       [hsl |-> <<230808667, 69114357, 81044485>>, rgb |-> <<158, 208, 239>>],
       [hsl |-> <<229808667, 69114357, 81044485>>, rgb |-> <<156, 208, 239>>],
       [hsl |-> <<228808667, 69114357, 81044485>>, rgb |-> <<154, 209, 239>>],
       [hsl |-> <<227808667, 69114357, 81044485>>, rgb |-> <<152, 209, 239>>],
       [hsl |-> <<226808667, 69114357, 81044485>>, rgb |-> <<150, 209, 239>>],
       [hsl |-> <<225808667, 69114357, 81044485>>, rgb |-> <<148, 210, 239>>],
       [hsl |-> <<224808667, 69114357, 81044485>>, rgb |-> <<146, 210, 239>>],
       [hsl |-> <<223808667, 69114357, 81044485>>, rgb |-> <<144, 211, 239>>],
       [hsl |-> <<222808667, 69114357, 81044485>>, rgb |-> <<141, 211, 239>>],
       [hsl |-> <<221808667, 69114357, 81044485>>, rgb |-> <<139, 212, 239>>],
       [hsl |-> <<220808667, 69114357, 81044485>>, rgb |-> <<136, 212, 239>>],
       [hsl |-> <<269808667, 69114357, 81044485>>, rgb |-> <<201, 197, 239>>],
       [hsl |-> <<299808667, 69114357, 81044485>>, rgb |-> <<229, 187, 239>>],
       [hsl |-> <<329808667, 69114357, 81044485>>, rgb |-> <<240, 186, 218>>],
       [hsl |-> <<359808667, 69114357, 81044485>>, rgb |-> <<240, 188, 197>>],
       [hsl |-> <<29808667, 69114357, 81044485>>, rgb |-> <<241, 190, 173>>],
       [hsl |-> <<59808667, 69114357, 81044485>>, rgb |-> <<238, 195, 112>>],
       [hsl |-> <<89808667, 69114357, 81044485>>, rgb |-> <<201, 208, 112>>],
       [hsl |-> <<119808667, 69114357, 81044485>>, rgb |-> <<143, 221, 111>>],
       [hsl |-> <<149808667, 69114357, 81044485>>, rgb |-> <<115, 221, 173>>],
       [hsl |-> <<179808667, 69114357, 81044485>>, rgb |-> <<118, 218, 206>>],
       [hsl |-> <<209808667, 69114357, 81044485>>, rgb |-> <<121, 215, 233>>],
       [hsl |-> <<239808667, 69114357, 0>>, rgb |-> <<0, 0, 0>>],
       [hsl |-> <<239808667, 69114357, 100000000>>, rgb |-> <<255, 255, 255>>],
       [hsl |-> <<239808667, 69114357, 50000000>>, rgb |-> <<72, 124, 164>>],
       [hsl |-> <<239808667, 69114357, 33333333>>, rgb |-> <<46, 82, 109>>],
       [hsl |-> <<239808667, 69114357, 66666667>>, rgb |-> <<100, 169, 221>>],
       [hsl |-> <<239808667, 69114357, 5263158>>, rgb |-> <<7, 19, 28>>],
       [hsl |-> <<239808667, 69114357, 10526316>>, rgb |-> <<14, 30, 43>>],
       [hsl |-> <<239808667, 69114357, 15789474>>, rgb |-> <<21, 41, 57>>],
       [hsl |-> <<239808667, 69114357, 21052632>>, rgb |-> <<28, 53, 72>>],
       [hsl |-> <<239808667, 69114357, 26315789>>, rgb |-> <<35, 65, 88>>],
       [hsl |-> <<239808667, 69114357, 31578947>>, rgb |-> <<43, 78, 104>>],
       [hsl |-> <<239808667, 69114357, 36842105>>, rgb |-> <<51, 90, 121>>],
       [hsl |-> <<239808667, 69114357, 42105263>>, rgb |-> <<60, 104, 137>>],
       [hsl |-> <<239808667, 69114357, 47368421>>, rgb |-> <<68, 117, 155>>],
       [hsl |-> <<239808667, 69114357, 52631579>>, rgb |-> <<77, 131, 173>>],
       [hsl |-> <<239808667, 69114357, 57894737>>, rgb |-> <<85, 145, 191>>],
       [hsl |-> <<239808667, 69114357, 63157895>>, rgb |-> <<94, 159, 209>>],
       [hsl |-> <<239808667, 69114357, 68421053>>, rgb |-> <<103, 173, 228>>],
       [hsl |-> <<239808667, 69114357, 73684211>>, rgb |-> <<133, 186, 233>>],
       [hsl |-> <<239808667, 69114357, 78947368>>, rgb |-> <<161, 200, 237>>],
       [hsl |-> <<239808667, 69114357, 84210526>>, rgb |-> <<186, 213, 242>>],
       [hsl |-> <<239808667, 69114357, 89473684>>, rgb |-> <<210, 227, 246>>],
       [hsl |-> <<239808667, 69114357, 94736842>>, rgb |-> <<233, 241, 250>>],
       [hsl |-> <<12177051, 0, 53237116>>, rgb |-> <<127, 127, 127>>],
       [hsl |-> <<12177051, 100000000, 3237116>>, rgb |-> <<35, 0, 0>>],
       [hsl |-> <<12177051, 50000000, 53237116>>, rgb |-> <<208, 89, 89>>],
       [hsl |-> <<12177051, 100000000, 33237116>>, rgb |-> <<162, 0, 0>>],
       [hsl |-> <<12177051, 80000000, 53237116>>, rgb |-> <<238, 56, 56>>],
       [hsl |-> <<12177051, 100000000, 73237116>>, rgb |-> <<255, 151, 151>>],
       [hsl |-> <<248609388, 0, 21042472>>, rgb |-> <<51, 51, 51>>],
       [hsl |-> <<248609388, 35433286, 21042472>>, rgb |-> <<42, 51, 66>>],
       [hsl |-> <<248609388, 85433286, 1042472>>, rgb |-> <<1, 4, 11>>],
       [hsl |-> <<248609388, 65433286, 21042472>>, rgb |-> <<31, 52, 78>>],
       [hsl |-> <<248609388, 85433286, 41042472>>, rgb |-> <<41, 99, 158>>],
       [hsl |-> <<248609388, 100000000, 21042472>>, rgb |-> <<0, 52, 92>>],
       [hsl |-> <<248609388, 85433286, 71042472>>, rgb |-> <<127, 176, 244>>],
       [hsl |-> <<239808667, 0, 81044485>>, rgb |-> <<201, 201, 201>>],
       [hsl |-> <<239808667, 69114357, 31044485>>, rgb |-> <<42, 76, 102>>],
       [hsl |-> <<239808667, 19114357, 81044485>>, rgb |-> <<194, 202, 212>>],
       [hsl |-> <<239808667, 69114357, 61044485>>, rgb |-> <<91, 153, 202>>],
       [hsl |-> <<239808667, 49114357, 81044485>>, rgb |-> <<181, 204, 228>>],
       [hsl |-> <<239808667, 89114357, 81044485>>, rgb |-> <<160, 206, 249>>],
       [hsl |-> <<239808667, 100000000, 81044485>>, rgb |-> <<153, 207, 255>>] >>

HpluvInverseTable ==
    << [hpl |-> <<0, 0, 0>>, rgb |-> <<0, 0, 0>>],
       [hpl |-> <<0, 0, 100000000>>, rgb |-> <<255, 255, 255>>],
       [hpl |-> <<0, 0, 53590000>>, rgb |-> <<128, 128, 128>>],
       [hpl |-> <<0, 0, 61700000>>, rgb |-> <<149, 149, 149>>],
       [hpl |-> <<0, 0, 37820000>>, rgb |-> <<89, 89, 89>>],
       [hpl |-> <<239810000, 81200000, 81040000>>, rgb |-> <<171, 205, 239>>],
       [hpl |-> <<30000000, 68880000, 73070000>>, rgb |-> <<219, 168, 150>>],
       [hpl |-> <<210000000, 55760000, 87990000>>, rgb |-> <<201, 225, 231>>],
       [hpl |-> <<42180000, 85660000, 32670000>>, rgb |-> <<96, 72, 54>>],
       [hpl |-> <<72180000, 52500000, 75590000>>, rgb |-> <<198, 186, 147>>],
       [hpl |-> <<162180000, 97260000, 69290000>>, rgb |-> <<60, 189, 156>>],
       [hpl |-> <<162180000, 48390000, 73650000>>, rgb |-> <<138, 192, 174>>],
       [hpl |-> <<360000000, 50000000, 50000000>>, rgb |-> <<143, 111, 116>>],
       [hpl |-> <<0, 100000000, 53240000>>, rgb |-> <<174, 109, 122>>],
       [hpl |-> <<180000000, 50000000, 50000000>>, rgb |-> <<86, 127, 121>>],
       [hpl |-> <<360000000, 100000000, 100000000>>, rgb |-> <<255, 255, 255>>] >>

\* The colours the forward tables hold.
LibraryColours == {HsluvForwardTable[i].rgb : i \in 1..Len(HsluvForwardTable)}

\* Hsluv.hexToRgb: the hex is lower-cased and read two digits a channel.
Hsluv_hexToRgb(hex) == hexToRgb(hex)

\* Hsluv.rgbToHex: '#' and two lowercase digits a channel.
Hsluv_rgbToHex(rgb) == rgbToHex(rgb)

\* Hsluv.hexToHsluv: <<hsluv_h, hsluv_s, hsluv_l>> in millionths.
Hsluv_hexToHsluv(hex) ==
    HsluvForwardTable[CHOOSE i \in 1..Len(HsluvForwardTable) :
                         HsluvForwardTable[i].rgb = Hsluv_hexToRgb(hex)].hsl

\* Hsluv.hexToHpluv: <<hpluv_h, hpluv_p, hpluv_l>> in millionths.
Hsluv_hexToHpluv(hex) ==
    HpluvForwardTable[CHOOSE i \in 1..Len(HpluvForwardTable) :
                         HpluvForwardTable[i].rgb = Hsluv_hexToRgb(hex)].hpl

\* Hsluv.hsluvToHex, from <<h, s, l>> in millionths.
Hsluv_hsluvToHex(hsl) ==
    Hsluv_rgbToHex(HsluvInverseTable[CHOOSE i \in 1..Len(HsluvInverseTable) :
                                        HsluvInverseTable[i].hsl = hsl].rgb)

\* Hsluv.hpluvToHex, from <<h, p, l>> in millionths.
Hsluv_hpluvToHex(hpl) ==
    Hsluv_rgbToHex(HpluvInverseTable[CHOOSE i \in 1..Len(HpluvInverseTable) :
                                        HpluvInverseTable[i].hpl = hpl].rgb)

-----------------------------------------------------------------------------
(* pack.ts: validation of HSLuv / HPLuv arguments (helpers.ts), in          *)
(* hundredths.                                                              *)

\* The mutant of isValidHsluv: h < 360 in the place of h <= 360.
isValidHsluvHueBelow360(h, s, l) ==
    h >= 0 /\ h < 36000 /\ s >= 0 /\ s <= 10000 /\ l >= 0 /\ l <= 10000

isValidHsluv(h, s, l) ==
    h >= 0 /\ h <= 36000 /\ s >= 0 /\ s <= 10000 /\ l >= 0 /\ l <= 10000

isValidHpluv(h, p, l) ==
    h >= 0 /\ h <= 36000 /\ p >= 0 /\ p <= 10000 /\ l >= 0 /\ l <= 10000

\* Math.round(x * 100) / 100 in hundredths, for x >= 0 in millionths.
roundHundredths(x) == (x + 5000) \div 10000

\* A component in hundredths as the package's number, in millionths.
toMillionths(x) == x * 10000

-----------------------------------------------------------------------------
(* The arguments the formulas are called with.                              *)

\* '#RRGGBB' with uppercase digits.
UpperHex(rgb) ==
    <<"#">> \o [i \in 1..6 |->
                  UpperDigits[(IF i % 2 = 1 THEN rgb[(i + 1) \div 2] \div 16
                                            ELSE rgb[i \div 2] % 16) + 1]]

ValidHexInputs ==
    {UpperHex(c) : c \in LibraryColours} \cup {rgbToHex(<<171, 205, 239>>)}

MalformedHexInputs ==
    { <<>>, <<"F", "F", "0", "0", "0", "0">>, <<"#", "F", "0", "0">>,
      <<"#", "G", "G", "0", "0", "0", "0">>, <<"#", "F", "F", "0", "0", "0", "0", "0">>, <<"r", "e", "d">> }

HexInputs == ValidHexInputs \cup MalformedHexInputs

\* The colours the gradient and the contrast formulas are called with.
PairHexInputs ==
    {UpperHex(c) : c \in {<<0, 0, 0>>, <<255, 255, 255>>, <<255, 0, 0>>, <<0, 255, 0>>,
                          <<149, 149, 149>>, <<89, 89, 89>>, <<18, 52, 86>>}}
    \cup {rgbToHex(<<171, 205, 239>>), <<"#", "F", "0", "0">>, <<"r", "e", "d">>}

HsluvInputs ==
    {[i \in 1..3 |-> HsluvInverseTable[k].hsl[i] \div 10000] :
        k \in {j \in 1..Len(HsluvInverseTable) :
                  \A i \in 1..3 : HsluvInverseTable[j].hsl[i] % 10000 = 0}}
    \cup {<<-1000, 5000, 5000>>, <<-1, 0, 0>>, <<36001, 5000, 5000>>,
          <<48000, 10000, 5000>>, <<0, 10001, 5000>>, <<0, -1, 5000>>,
          <<0, 5000, 10001>>, <<0, 5000, -1>>}

HpluvInputs ==
    {[i \in 1..3 |-> HpluvInverseTable[k].hpl[i] \div 10000] :
        k \in 1..Len(HpluvInverseTable)}
    \cup {[i \in 1..3 |-> roundHundredths(HpluvForwardTable[k].hpl[i])] :
        k \in 1..Len(HpluvForwardTable)}
    \cup {<<-1000, 5000, 5000>>, <<36001, 5000, 5000>>, <<0, -1, 5000>>,
          <<0, 5000, 10001>>, <<0, 5000, -1>>}

RgbInputs == (0..MaxChannel) \cup {-1, MaxChannel + 1}

CmykInputs == {-1, 0, 2, 50, 75, 100, 101}

StepsInputs == (0..MaxSteps) \cup {100, 101}

PreviewInputs ==
    { <<"#", "F", "F", "0", "0", "0", "0">>, <<"#", "F", "0", "0">>, <<"F", "F", "0", "0", "0", "0">>,
      <<"#", "F", "F", "0", "0", "0", "0", ",", " ", "#", "0", "0", "f", "f", "0", "0">>,
      <<"#", "F", "F", "0", "0", "0", "0", ",", "r", "e", "d">>,
      <<"#", "F", "0", "0", "F">>, <<"r", "e", "d">>, <<>>,
      <<" ", "#", "1", "2", "3", "4", "5", " ", ",", "#", "1", "2", "3", "4", "5", "6", "7">> }

-----------------------------------------------------------------------------
(* pack.ts: the formulas.                                                   *)

InvalidHexMessage == "Invalid hex color format. Please use #RRGGBB format."

\* Each formula's execute() is an operator from the arguments to the outcome; the
\* action of the same name draws the arguments and stores the outcome.

HexToRgb_execute(hex) ==
    IF ~isValidHexColor(hex)
    THEN Err(InvalidHexMessage)
    ELSE LET rgb == Hsluv_hexToRgb(hex)
         IN  Ok([r |-> rgb[1], g |-> rgb[2], b |-> rgb[3]])

HexToHsluv_execute(hex) ==
    IF ~isValidHexColor(hex)
    THEN Err(InvalidHexMessage)
    ELSE LET hsl == Hsluv_hexToHsluv(hex)
         IN  Ok([h |-> roundHundredths(hsl[1]),
                 s |-> roundHundredths(hsl[2]),
                 l |-> roundHundredths(hsl[3])])

HsluvToHex_execute(h, s, l) ==
    IF ~isValidHsluv(h, s, l)
    THEN Err("Invalid HSLuv values. Hue: 0-360, Saturation and Lightness: 0-100.")
    ELSE Ok(Hsluv_hsluvToHex(<<toMillionths(h), toMillionths(s), toMillionths(l)>>))

HexToHpluv_execute(hex) ==
    IF ~isValidHexColor(hex)
    THEN Err(InvalidHexMessage)
    ELSE LET hpl == Hsluv_hexToHpluv(hex)
         IN  Ok([h |-> roundHundredths(hpl[1]),
                 p |-> roundHundredths(hpl[2]),
                 l |-> roundHundredths(hpl[3])])

HpluvToHex_execute(h, p, l) ==
    IF ~isValidHpluv(h, p, l)
    THEN Err("Invalid HPLuv values. Hue: 0-360, Percent and Lightness: 0-100.")
    ELSE Ok(Hsluv_hpluvToHex(<<toMillionths(h), toMillionths(p), toMillionths(l)>>))

RGBToCMYK_execute(r, g, b) ==
    IF ~isValidRgb(r, g, b)
    THEN Err("Invalid RGB values. Values must be between 0 and 255.")
    ELSE Ok(rgbToCmyk(r, g, b))

CMYKToRGB_execute(c, m, y, k) ==
    IF c < 0 \/ c > Hundred \/ m < 0 \/ m > Hundred
       \/ y < 0 \/ y > Hundred \/ k < 0 \/ k > Hundred
    THEN Err("Invalid CMYK values. All values must be between 0 and 1.")
    ELSE Ok(cmykToRgb(c, m, y, k))

ContrastRatio_execute(color1, color2) ==
    IF ~isValidHexColor(color1) \/ ~isValidHexColor(color2)
    THEN Err(InvalidHexMessage)
    ELSE Ok(calculateContrastRatio(color1, color2))

IsAccessible_execute(foreground, background, level, size) ==
    IF ~isValidHexColor(foreground) \/ ~isValidHexColor(background)
    THEN Err(InvalidHexMessage)
    ELSE IF level \notin {"AA", "AAA"}
    THEN Err("Invalid WCAG level. Please use 'AA' or 'AAA'.")
    ELSE IF size \notin {"large", "small"}
    THEN Err("Invalid text size. Please use 'large' or 'small'.")
    ELSE Ok(checkAccessibility(foreground, background, level, size))

\* No validation: the argument goes to getColorName as it is.
ColorName_execute(color) == Ok(getColorName(color))

HexToRgb ==
    /\ pc = "idle"
    /\ \E hex \in HexInputs :
          /\ call' = [name |-> "HexToRgb", args |-> <<hex>>]
          /\ result' = HexToRgb_execute(hex)
    /\ pc' = "done"
    /\ tables' = tablesAfterCall(tables)
    /\ UNCHANGED earlier

HexToHsluv ==
    /\ pc = "idle"
    /\ \E hex \in HexInputs :
          /\ call' = [name |-> "HexToHsluv", args |-> <<hex>>]
          /\ result' = HexToHsluv_execute(hex)
    /\ pc' = "done"
    /\ tables' = tablesAfterCall(tables)
    /\ UNCHANGED earlier

HsluvToHex ==
    /\ pc = "idle"
    /\ \E hsl \in HsluvInputs :
          /\ call' = [name |-> "HsluvToHex", args |-> hsl]
          /\ result' = HsluvToHex_execute(hsl[1], hsl[2], hsl[3])
    /\ pc' = "done"
    /\ tables' = tablesAfterCall(tables)
    /\ UNCHANGED earlier

HexToHpluv ==
    /\ pc = "idle"
    /\ \E hex \in HexInputs :
          /\ call' = [name |-> "HexToHpluv", args |-> <<hex>>]
          /\ result' = HexToHpluv_execute(hex)
    /\ pc' = "done"
    /\ tables' = tablesAfterCall(tables)
    /\ UNCHANGED earlier

HpluvToHex ==
    /\ pc = "idle"
    /\ \E hpl \in HpluvInputs :
          /\ call' = [name |-> "HpluvToHex", args |-> hpl]
          /\ result' = HpluvToHex_execute(hpl[1], hpl[2], hpl[3])
    /\ pc' = "done"
    /\ tables' = tablesAfterCall(tables)
    /\ UNCHANGED earlier

RGBToCMYK ==
    /\ pc = "idle"
    /\ \E r \in RgbInputs, g \in 0..MaxChannel, b \in 0..MaxBlue :
          /\ call' = [name |-> "RGBToCMYK", args |-> <<r, g, b>>]
          /\ result' = RGBToCMYK_execute(r, g, b)
    /\ pc' = "done"
    /\ tables' = tablesAfterCall(tables)
    /\ UNCHANGED earlier

CMYKToRGB ==
    /\ pc = "idle"
    /\ \E c \in CmykInputs, m \in {0, 50, 100}, y \in {0, 100}, k \in CmykInputs :
          /\ call' = [name |-> "CMYKToRGB", args |-> <<c, m, y, k>>]
          /\ result' = CMYKToRGB_execute(c, m, y, k)
    /\ pc' = "done"
    /\ tables' = tablesAfterCall(tables)
    /\ UNCHANGED earlier

ContrastRatio ==
    /\ pc = "idle"
    /\ \E color1 \in PairHexInputs, color2 \in PairHexInputs :
          /\ call' = [name |-> "ContrastRatio", args |-> <<color1, color2>>]
          /\ result' = ContrastRatio_execute(color1, color2)
    /\ pc' = "done"
    /\ tables' = tablesAfterCall(tables)
    /\ UNCHANGED earlier

IsAccessible ==
    /\ pc = "idle"
    /\ \E foreground \in PairHexInputs, background \in PairHexInputs,
          level \in {"AA", "AAA", "A"}, size \in {"large", "small", "medium"} :
          /\ call' = [name |-> "IsAccessible",
                      args |-> <<foreground, background, level, size>>]
          /\ result' = IsAccessible_execute(foreground, background, level, size)
    /\ pc' = "done"
    /\ tables' = tablesAfterCall(tables)
    /\ UNCHANGED earlier

ColorName ==
    /\ pc = "idle"
    /\ \E color \in HexInputs :
          /\ call' = [name |-> "ColorName", args |-> <<color>>]
          /\ result' = ColorName_execute(color)
    /\ pc' = "done"
    /\ tables' = tablesAfterCall(tables)
    /\ UNCHANGED earlier

\* The mutant of gradientChannel: the ratio is i / steps.
gradientChannelOverSteps(c1, c2, i, steps) ==
    RoundDiv(c1 * (steps - i) + c2 * i, steps)

\* Math.round(rgb1[c] * (1 - ratio) + rgb2[c] * ratio) for ratio = i / (steps - 1).
gradientChannel(c1, c2, i, steps) ==
    RoundDiv(c1 * (steps - 1 - i) + c2 * i, steps - 1)

\* The loop of LinearGradient: element i + 1 of the list is step i.
gradientColours(rgb1, rgb2, steps) ==
    [n \in 1..steps |->
        rgbToHex([c \in 1..3 |-> gradientChannel(rgb1[c], rgb2[c], n - 1, steps)])]

LinearGradient_execute(color1, color2, steps) ==
    IF ~isValidHexColor(color1) \/ ~isValidHexColor(color2)
    THEN Err(InvalidHexMessage)
    ELSE IF steps < 2 \/ steps > 100
    THEN Err("Steps must be between 2 and 100.")
    ELSE Ok(gradientColours(hexToRgb(color1), hexToRgb(color2), steps))

LinearGradient ==
    /\ pc = "idle"
    /\ \E color1 \in PairHexInputs, color2 \in PairHexInputs, steps \in StepsInputs :
          /\ call' = [name |-> "LinearGradient", args |-> <<color1, color2, steps>>]
          /\ result' = LinearGradient_execute(color1, color2, steps)
    /\ pc' = "done"
    /\ tables' = tablesAfterCall(tables)
    /\ UNCHANGED earlier

\* input.split(','): the pieces between the commas.
RECURSIVE splitOnComma(_)
splitOnComma(str) ==
    IF \E i \in 1..Len(str) : str[i] = ","
    THEN LET at == CHOOSE i \in 1..Len(str) :
                      str[i] = "," /\ \A j \in 1..(i - 1) : str[j] # ","
         IN  <<SubSeq(str, 1, at - 1)>> \o splitOnComma(SubSeq(str, at + 1, Len(str)))
    ELSE <<str>>

\* String.prototype.trim
RECURSIVE trim(_)
trim(str) ==
    IF Len(str) > 0 /\ str[1] = " " THEN trim(Tail(str))
    ELSE IF Len(str) > 0 /\ str[Len(str)] = " " THEN trim(SubSeq(str, 1, Len(str) - 1))
    ELSE str

\* normalizeColor: <<>> stands for null (a skipped colour).
normalizeColor(hex0) ==
    LET t == trim(hex0)
        hex == IF Len(t) > 0 /\ t[1] = "#" THEN Tail(t) ELSE t
    IN  IF ~(Len(hex) >= 3 /\ Len(hex) <= 6 /\ \A i \in 1..Len(hex) : IsHexDigit(hex[i]))
        THEN <<>>
        ELSE IF Len(hex) < 6
        THEN <<"#">> \o [i \in 1..(2 * Len(hex)) |-> hex[(i + 1) \div 2]]
        ELSE <<"#">> \o hex

\* colors.map(generateColorSVG).filter(svg => svg !== null): one <rect> a colour,
\* kept here as its fill.
validSvgs(input) ==
    SelectSeq([i \in 1..Len(splitOnComma(input)) |-> normalizeColor(splitOnComma(input)[i])],
              LAMBDA fill : fill # <<>>)

\* The result is the data URL of an <svg> that holds the rectangles of validSvgs
\* in order; the model keeps their fills.
ColorPreviewFormatter_execute(input) ==
    IF Len(validSvgs(input)) = 0
    THEN Err("No valid colors found. Please use 3 or 6-digit hex color codes.")
    ELSE Ok(validSvgs(input))

ColorPreviewFormatter ==
    /\ pc = "idle"
    /\ \E input \in PreviewInputs :
          /\ call' = [name |-> "ColorPreviewFormatter", args |-> <<input>>]
          /\ result' = ColorPreviewFormatter_execute(input)
    /\ pc' = "done"
    /\ tables' = tablesAfterCall(tables)
    /\ UNCHANGED earlier

-----------------------------------------------------------------------------
(* pack.ts: the colour schemes.  Each execute() makes its own Hsluv object, *)
(* sets its fields and calls its methods; the object is a record of the     *)
(* fields the formulas touch, hsluv_h / hsluv_s / hsluv_l in millionths.    *)

\* new Hsluv()
NewHsluv == [hex |-> <<"#", "0", "0", "0", "0", "0", "0">>,
             hsluv_h |-> 0, hsluv_s |-> 0, hsluv_l |-> 0]

\* color.hexToHsluv(): hsluv_h, hsluv_s and hsluv_l are set from color.hex.
hexToHsluv(color) ==
    LET hsl == Hsluv_hexToHsluv(color.hex)
    IN  [color EXCEPT !.hsluv_h = hsl[1], !.hsluv_s = hsl[2], !.hsluv_l = hsl[3]]

\* color.hsluvToHex(): color.hex is set from hsluv_h, hsluv_s and hsluv_l.
hsluvToHex(color) ==
    [color EXCEPT !.hex = Hsluv_hsluvToHex(<<color.hsluv_h, color.hsluv_s, color.hsluv_l>>)]

\* const color = new Hsluv(); color.hex = baseColor; color.hexToHsluv();
baseHsluv(baseColor) == hexToHsluv([NewHsluv EXCEPT !.hex = baseColor])

\* The colours the scheme formulas are called with.
SchemeHexInputs ==
    {UpperHex(<<255, 0, 0>>), UpperHex(<<18, 52, 86>>), rgbToHex(<<171, 205, 239>>),
     <<"#", "F", "0", "0">>, <<"r", "e", "d">>}

\* The mutant of rotateHue: the hue is turned the other way.
rotateHueBack(h, degrees) == (h + 360000000 - degrees) % 360000000

\* a % n in JavaScript for n > 0: the remainder has the sign of a.
remainder(a, n) == IF a >= 0 THEN a % n ELSE -((-a) % n)

\* helpers.ts: (h + degrees) % 360, h and degrees in millionths of a degree.
rotateHue(h, degrees) == remainder(h + degrees, 360000000)

\* The hues and the turns the helper is called with directly, in degrees.
RotateHueInputs == {0, 10, 180, 350, 360}

RotateDegreesInputs == {-720, -370, -360, -350, -30, -10, 0, 30, 360, 370}

\* A direct call of the exported helper rotateHue.
RotateHue ==
    /\ pc = "idle"
    /\ \E h \in RotateHueInputs, degrees \in RotateDegreesInputs :
          /\ call' = [name |-> "rotateHue", args |-> <<h, degrees>>]
          /\ result' = Ok(rotateHue(h * 1000000, degrees * 1000000))
    /\ pc' = "done"
    /\ tables' = tablesAfterCall(tables)
    /\ UNCHANGED earlier

\* One pass of the loop of TriadicScheme on the object and the list so far.
TriadicScheme_step(st) ==
    LET color == hsluvToHex([st.color EXCEPT
                                !.hsluv_h = rotateHue(st.color.hsluv_h, 120000000)])
    IN  [color |-> color, scheme |-> Append(st.scheme, color.hex)]

TriadicScheme_execute(baseColor) ==
    IF ~isValidHexColor(baseColor)
    THEN Err(InvalidHexMessage)
    ELSE LET color == baseHsluv(baseColor)
             st0 == [color |-> color, scheme |-> <<color.hex>>]
         IN  Ok(TriadicScheme_step(TriadicScheme_step(st0)).scheme)

TriadicScheme ==
    /\ pc = "idle"
    /\ \E baseColor \in SchemeHexInputs :
          /\ call' = [name |-> "TriadicScheme", args |-> <<baseColor>>]
          /\ result' = TriadicScheme_execute(baseColor)
    /\ pc' = "done"
    /\ tables' = tablesAfterCall(tables)
    /\ UNCHANGED earlier

\* The mutant of tetradicHue: the hue is turned from where the object stands.
tetradicHueFromPrevious(color, baseHue, degrees) == rotateHue(color.hsluv_h, degrees)

\* TetradicScheme: color.hsluv_h = rotateHue(baseHue, degrees)
tetradicHue(color, baseHue, degrees) == rotateHue(baseHue, degrees)

\* The mutant of TetradicScheme_step: the pass turns the hue the pass before
\* it left on the object.
TetradicScheme_stepAccumulating(st, baseHue, degrees) ==
    LET color == hsluvToHex([st.color EXCEPT
                                !.hsluv_h = rotateHue(st.color.hsluv_h, degrees)])
    IN  [color |-> color, scheme |-> Append(st.scheme, color.hex)]

\* color.hsluv_h = rotateHue(baseHue, degrees); color.hsluvToHex();
\* scheme.push(color.hex);
TetradicScheme_step(st, baseHue, degrees) ==
    LET color == hsluvToHex([st.color EXCEPT
                                !.hsluv_h = tetradicHue(st.color, baseHue, degrees)])
    IN  [color |-> color, scheme |-> Append(st.scheme, color.hex)]

TetradicScheme_execute(baseColor) ==
    IF ~isValidHexColor(baseColor)
    THEN Err(InvalidHexMessage)
    ELSE LET color == baseHsluv(baseColor)
             baseHue == color.hsluv_h
             st0 == [color |-> color, scheme |-> <<color.hex>>]
             st1 == TetradicScheme_step(st0, baseHue, 60000000)
             st2 == TetradicScheme_step(st1, baseHue, 180000000)
             st3 == TetradicScheme_step(st2, baseHue, 240000000)
         IN  Ok(st3.scheme)

TetradicScheme ==
    /\ pc = "idle"
    /\ \E baseColor \in SchemeHexInputs :
          /\ call' = [name |-> "TetradicScheme", args |-> <<baseColor>>]
          /\ result' = TetradicScheme_execute(baseColor)
    /\ pc' = "done"
    /\ tables' = tablesAfterCall(tables)
    /\ UNCHANGED earlier

CountInputs == (0..MaxCount) \cup {20, 21}

\* (100 / (count - 1)) * i in millionths, rounded to nearest, for count >= 2.
sweepLightness(count, i) ==
    LET n == 100000000 * i
        d == count - 1
    IN  n \div d + (IF 2 * (n % d) >= d THEN 1 ELSE 0)

\* The mutant of monoLightness: the sweep runs from 100 down to 0.
monoLightnessDescending(color, count, i) ==
    IF count = 1 THEN color.hsluv_l ELSE 100000000 - sweepLightness(count, i)

\* count === 1 ? color.hsluv_l : (100 / (count - 1)) * i
monoLightness(color, count, i) ==
    IF count = 1 THEN color.hsluv_l ELSE sweepLightness(count, i)

\* One pass of the loop of MonochromaticScheme, for the index i.
MonochromaticScheme_step(st, baseHue, baseSat, count, i) ==
    LET color == hsluvToHex([st.color EXCEPT
                                !.hsluv_h = baseHue,
                                !.hsluv_s = baseSat,
                                !.hsluv_l = monoLightness(st.color, count, i)])
    IN  [color |-> color, scheme |-> Append(st.scheme, color.hex)]

\* for (let i = 0; i < count; i++): the state after the passes 0 .. i - 1.
RECURSIVE MonochromaticScheme_loop(_, _, _, _, _)
MonochromaticScheme_loop(st0, baseHue, baseSat, count, i) ==
    IF i = 0 THEN st0
    ELSE MonochromaticScheme_step(
             MonochromaticScheme_loop(st0, baseHue, baseSat, count, i - 1),
             baseHue, baseSat, count, i - 1)

MonochromaticScheme_execute(baseColor, count) ==
    IF ~isValidHexColor(baseColor)
    THEN Err(InvalidHexMessage)
    ELSE IF count < 1 \/ count > 20
    THEN Err("Count must be between 1 and 20.")
    ELSE LET color == baseHsluv(baseColor)
             st0 == [color |-> color, scheme |-> <<>>]
         IN  Ok(MonochromaticScheme_loop(st0, color.hsluv_h, color.hsluv_s,
                                         count, count).scheme)

MonochromaticScheme ==
    /\ pc = "idle"
    /\ \E baseColor \in SchemeHexInputs, count \in CountInputs :
          /\ call' = [name |-> "MonochromaticScheme", args |-> <<baseColor, count>>]
          /\ result' = MonochromaticScheme_execute(baseColor, count)
    /\ pc' = "done"
    /\ tables' = tablesAfterCall(tables)
    /\ UNCHANGED earlier

\* The angles AnalogousScheme is called with, in degrees.
AngleInputs == {0, 1, 30, 180, 181}

\* The mutant of angleOrDefault: the default is 60.
angleOrDefaultSixty(args) == IF Len(args) >= 3 THEN args[3] ELSE 60

\* execute: async function ([baseColor, count, angle = 30])
angleOrDefault(args) == IF Len(args) >= 3 THEN args[3] ELSE 30

\* One pass of the loop of AnalogousScheme (angle in degrees).
AnalogousScheme_step(st, angle) ==
    LET color == hsluvToHex([st.color EXCEPT
                                !.hsluv_h = rotateHue(st.color.hsluv_h, angle * 1000000)])
    IN  [color |-> color, scheme |-> Append(st.scheme, color.hex)]

\* for (let i = 1; i < count; i++): the state after the passes 1 .. i.
RECURSIVE AnalogousScheme_loop(_, _, _)
AnalogousScheme_loop(st0, angle, i) ==
    IF i = 0 THEN st0
    ELSE AnalogousScheme_step(AnalogousScheme_loop(st0, angle, i - 1), angle)

AnalogousScheme_execute(args) ==
    LET baseColor == args[1]
        count == args[2]
        angle == angleOrDefault(args)
    IN  IF ~isValidHexColor(baseColor)
        THEN Err(InvalidHexMessage)
        ELSE IF count < 1 \/ count > 20
        THEN Err("Count must be between 1 and 20.")
        ELSE IF angle < 1 \/ angle > 180
        THEN Err("Angle must be between 1 and 180 degrees.")
        ELSE LET color == baseHsluv(baseColor)
                 st0 == [color |-> color, scheme |-> <<color.hex>>]
             IN  Ok(AnalogousScheme_loop(st0, angle, count - 1).scheme)

\* The third argument is optional: a call has two or three arguments.
AnalogousScheme ==
    /\ pc = "idle"
    /\ \E baseColor \in SchemeHexInputs, count \in CountInputs :
          \E args \in {<<baseColor, count>>}
                      \cup {<<baseColor, count, angle>> : angle \in AngleInputs} :
             /\ call' = [name |-> "AnalogousScheme", args |-> args]
             /\ result' = AnalogousScheme_execute(args)
    /\ pc' = "done"
    /\ tables' = tablesAfterCall(tables)
    /\ UNCHANGED earlier

-----------------------------------------------------------------------------
(* The passes of the scheme loops, each run on its own.                     *)

\* scheme.push(color.hex): the element a pass has pushed.
pushed(st) == st.scheme[Len(st.scheme)]

\* The passes of the loop of TriadicScheme, each run on the object as it is
\* when the loop starts, and the elements they push put in index order.
TriadicScheme_apart(baseColor) ==
    LET color == baseHsluv(baseColor)
        st0 == [color |-> color, scheme |-> <<color.hex>>]
    IN  <<color.hex, pushed(TriadicScheme_step(st0)), pushed(TriadicScheme_step(st0))>>

\* The three rotations of TetradicScheme, each run on the object as it is
\* after hexToHsluv.
TetradicScheme_apart(baseColor) ==
    LET color == baseHsluv(baseColor)
        st0 == [color |-> color, scheme |-> <<color.hex>>]
    IN  <<color.hex,
          pushed(TetradicScheme_step(st0, color.hsluv_h, 60000000)),
          pushed(TetradicScheme_step(st0, color.hsluv_h, 180000000)),
          pushed(TetradicScheme_step(st0, color.hsluv_h, 240000000))>>

\* The passes i = 0 .. count - 1 of MonochromaticScheme, each run on the
\* object as it is when the loop starts.
MonochromaticScheme_apart(baseColor, count) ==
    LET color == baseHsluv(baseColor)
        st0 == [color |-> color, scheme |-> <<>>]
    IN  [n \in 1..count |->
            pushed(MonochromaticScheme_step(st0, color.hsluv_h, color.hsluv_s,
                                            count, n - 1))]

\* The passes i = 1 .. count - 1 of AnalogousScheme, each run on the object
\* as it is when the loop starts.
AnalogousScheme_apart(args) ==
    LET color == baseHsluv(args[1])
        st0 == [color |-> color, scheme |-> <<color.hex>>]
    IN  [n \in 1..args[2] |->
            IF n = 1 THEN color.hex
            ELSE pushed(AnalogousScheme_step(st0, angleOrDefault(args)))]

\* The list a bulk call gives when its passes are run apart.
StepsApart(name, args) ==
    CASE name = "TriadicScheme" -> TriadicScheme_apart(args[1])
      [] name = "TetradicScheme" -> TetradicScheme_apart(args[1])
      [] name = "MonochromaticScheme" -> MonochromaticScheme_apart(args[1], args[2])
      [] name = "AnalogousScheme" -> AnalogousScheme_apart(args)
      [] name = "LinearGradient" ->
            gradientColours(hexToRgb(args[1]), hexToRgb(args[2]), args[3])

-----------------------------------------------------------------------------
(* helpers.ts and pack.ts: colour analysis.  Hues are in millionths of a    *)
(* degree.                                                                  *)

\* The mutant of hueDifference: the difference is not folded at 180.
hueDifferenceUnfolded(h1, h2) == IF h1 >= h2 THEN h1 - h2 ELSE h2 - h1

\* let hueDiff = Math.abs(h1 - h2); if (hueDiff > 180) hueDiff = 360 - hueDiff;
hueDifference(h1, h2) ==
    LET hueDiff == IF h1 >= h2 THEN h1 - h2 ELSE h2 - h1
    IN  IF hueDiff > 180000000 THEN 360000000 - hueDiff ELSE hueDiff

\* Math.abs(hueDiff - target) < 30
withinThirty(hueDiff, target) ==
    hueDiff - target < 30000000 /\ target - hueDiff < 30000000

evaluateColorHarmony(color1, color2) ==
    LET hsluv1 == baseHsluv(color1)
        hsluv2 == baseHsluv(color2)
        hueDiff == hueDifference(hsluv1.hsluv_h, hsluv2.hsluv_h)
    IN  IF hueDiff < 30000000 THEN "Analogous (harmonious)"
        ELSE IF withinThirty(hueDiff, 180000000) THEN "Complementary (high contrast)"
        ELSE IF withinThirty(hueDiff, 120000000) THEN "Triadic (balanced)"
        ELSE IF withinThirty(hueDiff, 90000000) THEN "Square (vibrant)"
        ELSE "Discordant (use with caution)"

\* The colours EvaluateColorHarmony is called with: red, colours whose hue is
\* just under and just over 30, 60, 90 and 150 degrees from red's, cyan (180
\* degrees from red), blue (more than 180 degrees above red) and two
\* malformed strings.
HarmonyHexInputs ==
    {UpperHex(c) : c \in {<<255, 0, 0>>, <<0, 255, 255>>, <<0, 0, 255>>,
                          <<117, 84, 57>>, <<96, 72, 54>>, <<231, 201, 9>>,
                          <<198, 186, 147>>, <<204, 252, 0>>, <<192, 237, 15>>,
                          <<60, 189, 156>>, <<138, 192, 174>>}}
    \cup {<<"#", "F", "0", "0">>, <<"r", "e", "d">>}

EvaluateColorHarmony_execute(color1, color2) ==
    IF ~isValidHexColor(color1) \/ ~isValidHexColor(color2)
    THEN Err(InvalidHexMessage)
    ELSE Ok(evaluateColorHarmony(color1, color2))

EvaluateColorHarmony ==
    /\ pc = "idle"
    /\ \E color1 \in HarmonyHexInputs, color2 \in HarmonyHexInputs :
          /\ call' = [name |-> "EvaluateColorHarmony", args |-> <<color1, color2>>]
          /\ result' = EvaluateColorHarmony_execute(color1, color2)
    /\ pc' = "done"
    /\ tables' = tablesAfterCall(tables)
    /\ UNCHANGED earlier

\* The mutant of isWarmOrCool: the two answers are exchanged.
isWarmOrCoolExchanged(color) ==
    LET hsluv == baseHsluv(color)
    IN  IF hsluv.hsluv_h >= 30000000 /\ hsluv.hsluv_h <= 210000000 THEN "Warm" ELSE "Cool"

\* hsluv.hsluv_h >= 30 && hsluv.hsluv_h <= 210 ? 'Cool' : 'Warm'
isWarmOrCool(color) ==
    LET hsluv == baseHsluv(color)
    IN  IF hsluv.hsluv_h >= 30000000 /\ hsluv.hsluv_h <= 210000000 THEN "Cool" ELSE "Warm"

\* The colours IsWarmOrCool is called with: hues just under and just over 30
\* and 210 degrees, red, green, cyan, blue, a grey and two malformed strings.
WarmCoolHexInputs ==
    {UpperHex(c) : c \in {<<219, 168, 150>>, <<210, 111, 45>>, <<27, 216, 240>>,
                          <<201, 225, 231>>, <<255, 0, 0>>, <<0, 255, 0>>,
                          <<0, 255, 255>>, <<0, 0, 255>>, <<128, 128, 128>>}}
    \cup {<<"#", "F", "0", "0">>, <<"r", "e", "d">>}

IsWarmOrCool_execute(color) ==
    IF ~isValidHexColor(color)
    THEN Err(InvalidHexMessage)
    ELSE Ok(isWarmOrCool(color))

IsWarmOrCool ==
    /\ pc = "idle"
    /\ \E color \in WarmCoolHexInputs :
          /\ call' = [name |-> "IsWarmOrCool", args |-> <<color>>]
          /\ result' = IsWarmOrCool_execute(color)
    /\ pc' = "done"
    /\ tables' = tablesAfterCall(tables)
    /\ UNCHANGED earlier

-----------------------------------------------------------------------------
(* helpers.ts and pack.ts: mixing.  A ratio is in hundredths.               *)

\* types.ts: STANDARD_COLORS
STANDARD_COLORS == tables.STANDARD_COLORS

\* The mutant of mixColors: the ratio weighs the first colour.
mixColorsFirstWeighted(color1, color2, ratio) ==
    LET rgb1 == hexToRgb(color1)
        rgb2 == hexToRgb(color2)
    IN  rgbToHex([i \in 1..3 |->
                     RoundDiv(rgb1[i] * ratio + rgb2[i] * (Hundred - ratio), Hundred)])

\* rgbToHex(rgb1.map((c, i) => c * (1 - ratio) + rgb2[i] * ratio)): the sum is
\* rounded by rgbToHex's Math.round.
mixColors(color1, color2, ratio) ==
    LET rgb1 == hexToRgb(color1)
        rgb2 == hexToRgb(color2)
    IN  rgbToHex([i \in 1..3 |->
                     RoundDiv(rgb1[i] * (Hundred - ratio) + rgb2[i] * ratio, Hundred)])

\* The ratios and amounts the mixing formulas are called with.
RatioInputs == {-25, 0, 25, 30, 50, 75, 100, 125}

MixColors_execute(color1, color2, ratio) ==
    IF ~isValidHexColor(color1) \/ ~isValidHexColor(color2)
    THEN Err(InvalidHexMessage)
    ELSE IF ratio < 0 \/ ratio > Hundred
    THEN Err("Ratio must be between 0 and 1.")
    ELSE Ok(mixColors(color1, color2, ratio))

Tint_execute(color, amount) ==
    IF ~isValidHexColor(color)
    THEN Err(InvalidHexMessage)
    ELSE IF amount < 0 \/ amount > Hundred
    THEN Err("Amount must be between 0 and 1.")
    ELSE Ok(mixColors(color, STANDARD_COLORS.WHITE, amount))

Shade_execute(color, amount) ==
    IF ~isValidHexColor(color)
    THEN Err(InvalidHexMessage)
    ELSE IF amount < 0 \/ amount > Hundred
    THEN Err("Amount must be between 0 and 1.")
    ELSE Ok(mixColors(color, STANDARD_COLORS.BLACK, amount))

MixColors ==
    /\ pc = "idle"
    /\ \E color1 \in PairHexInputs, color2 \in PairHexInputs, ratio \in RatioInputs :
          /\ call' = [name |-> "MixColors", args |-> <<color1, color2, ratio>>]
          /\ result' = MixColors_execute(color1, color2, ratio)
    /\ pc' = "done"
    /\ tables' = tablesAfterCall(tables)
    /\ UNCHANGED earlier

Tint ==
    /\ pc = "idle"
    /\ \E color \in PairHexInputs, amount \in RatioInputs :
          /\ call' = [name |-> "Tint", args |-> <<color, amount>>]
          /\ result' = Tint_execute(color, amount)
    /\ pc' = "done"
    /\ tables' = tablesAfterCall(tables)
    /\ UNCHANGED earlier

Shade ==
    /\ pc = "idle"
    /\ \E color \in PairHexInputs, amount \in RatioInputs :
          /\ call' = [name |-> "Shade", args |-> <<color, amount>>]
          /\ result' = Shade_execute(color, amount)
    /\ pc' = "done"
    /\ tables' = tablesAfterCall(tables)
    /\ UNCHANGED earlier

-----------------------------------------------------------------------------
(* pack.ts: SuggestTextColor.                                               *)

\* The text of the third outcome, held as a sequence like the hex strings it
\* is returned in place of, so that the two can be compared.
NoContrastMessage == <<"No sufficiently contrasting color found">>

\* The backgrounds SuggestTextColor is called with: the colours of the
\* contrast formulas and the greys around which the suggestion changes.
BackgroundHexInputs ==
    PairHexInputs
    \cup {UpperHex(<<v, v, v>>) : v \in {89, 90, 116, 117, 118, 119, 148}}

\* The mutant of suggestedColor: black is taken as soon as it reaches the
\* threshold.
suggestedColorBlackFirst(blackContrast, whiteContrast, threshold) ==
    IF blackContrast >= threshold
    THEN STANDARD_COLORS.BLACK
    ELSE IF whiteContrast >= threshold
    THEN STANDARD_COLORS.WHITE
    ELSE NoContrastMessage

\* The mutant of suggestedColor: white is tried first, and taken as soon as
\* it reaches the threshold.
suggestedColorWhiteFirst(blackContrast, whiteContrast, threshold) ==
    IF whiteContrast >= threshold
    THEN STANDARD_COLORS.WHITE
    ELSE IF blackContrast >= threshold
    THEN STANDARD_COLORS.BLACK
    ELSE NoContrastMessage

\* The if / else if / else at the end of SuggestTextColor.
suggestedColor(blackContrast, whiteContrast, threshold) ==
    IF blackContrast >= threshold /\ blackContrast > whiteContrast
    THEN STANDARD_COLORS.BLACK
    ELSE IF whiteContrast >= threshold
    THEN STANDARD_COLORS.WHITE
    ELSE NoContrastMessage

SuggestTextColor_execute(backgroundColor, level) ==
    IF ~isValidHexColor(backgroundColor)
    THEN Err(InvalidHexMessage)
    ELSE IF level \notin {"AA", "AAA"}
    THEN Err("Invalid WCAG level. Please use 'AA' or 'AAA'.")
    ELSE LET blackContrast == calculateContrastRatio(backgroundColor, STANDARD_COLORS.BLACK)
             whiteContrast == calculateContrastRatio(backgroundColor, STANDARD_COLORS.WHITE)
             threshold == IF level = "AAA" THEN AAA_NORMAL ELSE AA_NORMAL
         IN  Ok(suggestedColor(blackContrast, whiteContrast, threshold))

SuggestTextColor ==
    /\ pc = "idle"
    /\ \E backgroundColor \in BackgroundHexInputs, level \in {"AA", "AAA", "A"} :
          /\ call' = [name |-> "SuggestTextColor", args |-> <<backgroundColor, level>>]
          /\ result' = SuggestTextColor_execute(backgroundColor, level)
    /\ pc' = "done"
    /\ tables' = tablesAfterCall(tables)
    /\ UNCHANGED earlier

-----------------------------------------------------------------------------
(* pack.ts: AdjustBrightness and AdjustSaturation.  An adjustment is in     *)
(* percent, the components of the object in millionths.                     *)

\* The adjustments the two formulas are called with.
AdjustmentInputs == {-150, -100, -50, -20, 0, 20, 50, 100, 150}

\* The mutant of adjusted: the adjustment is subtracted.
adjustedSubtracted(old, adjustment) ==
    Max2(0, Min2(100000000, old - adjustment * 1000000))

\* Math.max(0, Math.min(100, old + adjustment))
adjusted(old, adjustment) ==
    Max2(0, Min2(100000000, old + adjustment * 1000000))

\* The object of AdjustBrightness when hsluvToHex() is called on it.
AdjustBrightness_object(color, adjustment) ==
    LET hsluv == baseHsluv(color)
    IN  [hsluv EXCEPT !.hsluv_l = adjusted(hsluv.hsluv_l, adjustment)]

AdjustBrightness_execute(color, adjustment) ==
    IF ~isValidHexColor(color)
    THEN Err(InvalidHexMessage)
    ELSE Ok(hsluvToHex(AdjustBrightness_object(color, adjustment)).hex)

AdjustBrightness ==
    /\ pc = "idle"
    /\ \E color \in SchemeHexInputs, adjustment \in AdjustmentInputs :
          /\ call' = [name |-> "AdjustBrightness", args |-> <<color, adjustment>>]
          /\ result' = AdjustBrightness_execute(color, adjustment)
    /\ pc' = "done"
    /\ tables' = tablesAfterCall(tables)
    /\ UNCHANGED earlier

\* The object of AdjustSaturation when hsluvToHex() is called on it.
AdjustSaturation_object(color, adjustment) ==
    LET hsluv == baseHsluv(color)
    IN  [hsluv EXCEPT !.hsluv_s = adjusted(hsluv.hsluv_s, adjustment)]

AdjustSaturation_execute(color, adjustment) ==
    IF ~isValidHexColor(color)
    THEN Err(InvalidHexMessage)
    ELSE Ok(hsluvToHex(AdjustSaturation_object(color, adjustment)).hex)

AdjustSaturation ==
    /\ pc = "idle"
    /\ \E color \in SchemeHexInputs, adjustment \in AdjustmentInputs :
          /\ call' = [name |-> "AdjustSaturation", args |-> <<color, adjustment>>]
          /\ result' = AdjustSaturation_execute(color, adjustment)
    /\ pc' = "done"
    /\ tables' = tablesAfterCall(tables)
    /\ UNCHANGED earlier

-----------------------------------------------------------------------------
(* helpers.ts and pack.ts: colour blindness.  A matrix entry is in          *)
(* thousandths.                                                             *)

\* The mutant of matrices: 0.785 in the place of 0.758.
matricesDigitsExchanged ==
    [protanopia |-> << <<567, 433, 0>>, <<558, 442, 0>>, <<0, 242, 785>> >>,
     deuteranopia |-> << <<625, 375, 0>>, <<700, 300, 0>>, <<0, 300, 700>> >>,
     tritanopia |-> << <<950, 50, 0>>, <<0, 433, 567>>, <<0, 475, 525>> >>]

\* const matrices = { protanopia: ..., deuteranopia: ..., tritanopia: ... }
matrices ==
    [protanopia |-> << <<567, 433, 0>>, <<558, 442, 0>>, <<0, 242, 758>> >>,
     deuteranopia |-> << <<625, 375, 0>>, <<700, 300, 0>>, <<0, 300, 700>> >>,
     tritanopia |-> << <<950, 50, 0>>, <<0, 433, 567>>, <<0, 475, 525>> >>]

\* [rgb[0] * matrix[r][0] + rgb[1] * matrix[r][1] + rgb[2] * matrix[r][2]]
\* for r = 0, 1, 2, then .map(Math.round).
simulateColorBlindness(rgb, type) ==
    LET matrix == matrices[type]
    IN  [r \in 1..3 |->
            RoundDiv(rgb[1] * matrix[r][1] + rgb[2] * matrix[r][2] + rgb[3] * matrix[r][3],
                     1000)]

\* The colours SimulateColorBlindness is called with: every grey, the corners
\* of the colour cube, two other colours and a malformed one.
BlindnessHexInputs ==
    {UpperHex(<<v, v, v>>) : v \in 0..MaxChannel}
    \cup {UpperHex(<<r, g, b>>) : r \in {0, MaxChannel}, g \in {0, MaxChannel},
                                  b \in {0, MaxChannel}}
    \cup {UpperHex(<<18, 52, 86>>), rgbToHex(<<171, 205, 239>>), <<"r", "e", "d">>}

SimulateColorBlindness_execute(color, type) ==
    IF ~isValidHexColor(color)
    THEN Err(InvalidHexMessage)
    ELSE IF type \notin {"protanopia", "deuteranopia", "tritanopia"}
    THEN Err("Invalid color blindness type. Use protanopia, deuteranopia, or tritanopia.")
    ELSE Ok(rgbToHex(simulateColorBlindness(hexToRgb(color), type)))

SimulateColorBlindness ==
    /\ pc = "idle"
    /\ \E color \in BlindnessHexInputs,
          type \in {"protanopia", "deuteranopia", "tritanopia", "achromatopsia"} :
          /\ call' = [name |-> "SimulateColorBlindness", args |-> <<color, type>>]
          /\ result' = SimulateColorBlindness_execute(color, type)
    /\ pc' = "done"
    /\ tables' = tablesAfterCall(tables)
    /\ UNCHANGED earlier

-----------------------------------------------------------------------------
(* helpers.ts: getLuminance, called directly.                               *)

\* The colours the helper is called with: every channel value, as a grey.
LuminanceHexInputs == {UpperHex(<<v, v, v>>) : v \in 0..MaxChannel}

\* A direct call of the exported helper getLuminance.
GetLuminance ==
    /\ pc = "idle"
    /\ \E hex \in LuminanceHexInputs :
          /\ call' = [name |-> "getLuminance", args |-> <<hex>>]
          /\ result' = Ok(getLuminance(hex))
    /\ pc' = "done"
    /\ tables' = tablesAfterCall(tables)
    /\ UNCHANGED earlier

-----------------------------------------------------------------------------
(* Calls made one after another.                                            *)

\* The calls a sequence of calls is made of: every formula once, valid and
\* malformed arguments, and the formulas that read the tables twice.
ProbeCalls ==
    << [name |-> "HexToRgb", args |-> <<UpperHex(<<255, 0, 0>>)>>],
       [name |-> "HexToRgb", args |-> << <<"r", "e", "d">> >>],
       [name |-> "HexToHsluv", args |-> <<UpperHex(<<255, 0, 0>>)>>],
       [name |-> "HsluvToHex", args |-> <<0, 0, 0>>],
       [name |-> "HsluvToHex", args |-> <<48000, 10000, 5000>>],
       [name |-> "HexToHpluv", args |-> <<UpperHex(<<255, 0, 0>>)>>],
       [name |-> "HpluvToHex", args |-> <<0, 0, 0>>],
       [name |-> "RGBToCMYK", args |-> <<255, 0, 0>>],
       [name |-> "CMYKToRGB", args |-> <<0, 100, 100, 0>>],
       [name |-> "ContrastRatio",
        args |-> <<UpperHex(<<255, 0, 0>>), UpperHex(<<0, 0, 0>>)>>],
       [name |-> "IsAccessible",
        args |-> <<UpperHex(<<255, 0, 0>>), UpperHex(<<0, 0, 0>>), "AAA", "small">>],
       [name |-> "IsAccessible",
        args |-> <<UpperHex(<<255, 0, 0>>), UpperHex(<<0, 0, 0>>), "AA", "large">>],
       [name |-> "ColorName", args |-> <<UpperHex(<<255, 0, 0>>)>>],
       [name |-> "LinearGradient",
        args |-> <<UpperHex(<<255, 0, 0>>), UpperHex(<<0, 255, 0>>), 3>>],
       [name |-> "ColorPreviewFormatter",
        args |-> << <<"#", "F", "F", "0", "0", "0", "0", ",", "r", "e", "d">> >>],
       [name |-> "TriadicScheme", args |-> <<UpperHex(<<255, 0, 0>>)>>],
       [name |-> "TetradicScheme", args |-> <<UpperHex(<<18, 52, 86>>)>>],
       [name |-> "MonochromaticScheme", args |-> <<UpperHex(<<255, 0, 0>>), 3>>],
       [name |-> "AnalogousScheme", args |-> <<UpperHex(<<255, 0, 0>>), 3>>],
       [name |-> "AnalogousScheme", args |-> <<UpperHex(<<18, 52, 86>>), 3, 30>>],
       [name |-> "EvaluateColorHarmony",
        args |-> <<UpperHex(<<255, 0, 0>>), UpperHex(<<0, 255, 255>>)>>],
       [name |-> "IsWarmOrCool", args |-> <<UpperHex(<<0, 0, 255>>)>>],
       [name |-> "MixColors",
        args |-> <<UpperHex(<<255, 0, 0>>), UpperHex(<<0, 255, 0>>), 50>>],
       [name |-> "Tint", args |-> <<UpperHex(<<255, 0, 0>>), 30>>],
       [name |-> "Shade", args |-> <<UpperHex(<<255, 0, 0>>), 30>>],
       [name |-> "SuggestTextColor", args |-> <<UpperHex(<<90, 90, 90>>), "AAA">>],
       [name |-> "SuggestTextColor", args |-> <<UpperHex(<<255, 0, 0>>), "AA">>],
       [name |-> "AdjustBrightness", args |-> <<UpperHex(<<255, 0, 0>>), 20>>],
       [name |-> "AdjustSaturation", args |-> <<UpperHex(<<255, 0, 0>>), -50>>],
       [name |-> "SimulateColorBlindness",
        args |-> <<UpperHex(<<255, 0, 0>>), "protanopia">>] >>

\* What is remembered of the calls made so far: for each call of ProbeCalls,
\* whether its outcome was remembered, and the outcome.
NoneEarlier == [i \in 1..Len(ProbeCalls) |-> [made |-> FALSE, result |-> NoResult]]

\* The host takes the outcome; the pack keeps nothing between calls.
Return ==
    /\ pc = "done"
    /\ pc' = "idle"
    /\ call' = NoCall
    /\ result' = NoResult
    /\ UNCHANGED <<tables, earlier>>

Init ==
    /\ pc = "idle"
    /\ call = NoCall
    /\ result = NoResult
    /\ tables = InitialTables
    /\ earlier = NoneEarlier

Next ==
    \/ HexToRgb
    \/ HexToHsluv
    \/ HsluvToHex
    \/ HexToHpluv
    \/ HpluvToHex
    \/ RGBToCMYK
    \/ CMYKToRGB
    \/ ContrastRatio
    \/ IsAccessible
    \/ ColorName
    \/ LinearGradient
    \/ ColorPreviewFormatter
    \/ TriadicScheme
    \/ TetradicScheme
    \/ EvaluateColorHarmony
    \/ IsWarmOrCool
    \/ MonochromaticScheme
    \/ AnalogousScheme
    \/ MixColors
    \/ Tint
    \/ Shade
    \/ SuggestTextColor
    \/ RotateHue
    \/ GetLuminance
    \/ AdjustBrightness
    \/ AdjustSaturation
    \/ SimulateColorBlindness
    \/ Return

Spec == Init /\ [][Next]_vars

-----------------------------------------------------------------------------
(* Sequences of calls: the host calls the formulas one after another, in    *)
(* any order and any number of times.                                       *)

\* pack.addFormula: the execute function the host runs for a formula name.
Execute(name, args) ==
    CASE name = "HexToRgb" -> HexToRgb_execute(args[1])
      [] name = "HexToHsluv" -> HexToHsluv_execute(args[1])
      [] name = "HsluvToHex" -> HsluvToHex_execute(args[1], args[2], args[3])
      [] name = "HexToHpluv" -> HexToHpluv_execute(args[1])
      [] name = "HpluvToHex" -> HpluvToHex_execute(args[1], args[2], args[3])
      [] name = "RGBToCMYK" -> RGBToCMYK_execute(args[1], args[2], args[3])
      [] name = "CMYKToRGB" -> CMYKToRGB_execute(args[1], args[2], args[3], args[4])
      [] name = "ContrastRatio" -> ContrastRatio_execute(args[1], args[2])
      [] name = "IsAccessible" -> IsAccessible_execute(args[1], args[2], args[3], args[4])
      [] name = "ColorName" -> ColorName_execute(args[1])
      [] name = "LinearGradient" -> LinearGradient_execute(args[1], args[2], args[3])
      [] name = "ColorPreviewFormatter" -> ColorPreviewFormatter_execute(args[1])
      [] name = "TriadicScheme" -> TriadicScheme_execute(args[1])
      [] name = "TetradicScheme" -> TetradicScheme_execute(args[1])
      [] name = "MonochromaticScheme" -> MonochromaticScheme_execute(args[1], args[2])
      [] name = "AnalogousScheme" -> AnalogousScheme_execute(args)
      [] name = "EvaluateColorHarmony" -> EvaluateColorHarmony_execute(args[1], args[2])
      [] name = "IsWarmOrCool" -> IsWarmOrCool_execute(args[1])
      [] name = "MixColors" -> MixColors_execute(args[1], args[2], args[3])
      [] name = "Tint" -> Tint_execute(args[1], args[2])
      [] name = "Shade" -> Shade_execute(args[1], args[2])
      [] name = "SuggestTextColor" -> SuggestTextColor_execute(args[1], args[2])
      [] name = "AdjustBrightness" -> AdjustBrightness_execute(args[1], args[2])
      [] name = "AdjustSaturation" -> AdjustSaturation_execute(args[1], args[2])
      [] name = "SimulateColorBlindness" -> SimulateColorBlindness_execute(args[1], args[2])

\* The host runs one of the calls; the call reads the tables as they are now.
Invoke ==
    /\ pc = "idle"
    /\ \E i \in 1..Len(ProbeCalls) :
          /\ call' = ProbeCalls[i]
          /\ result' = Execute(ProbeCalls[i].name, ProbeCalls[i].args)
    /\ pc' = "done"
    /\ tables' = tablesAfterCall(tables)
    /\ UNCHANGED earlier

\* The place of the running call in ProbeCalls.
ProbeIndex ==
    CHOOSE i \in 1..Len(ProbeCalls) :
        ProbeCalls[i].name = call.name /\ ProbeCalls[i].args = call.args

\* The host takes the outcome, and the outcome is remembered for comparison
\* (while fewer than MaxRemembered are).
ReturnRemembered ==
    /\ pc = "done"
    /\ pc' = "idle"
    /\ call' = NoCall
    /\ result' = NoResult
    /\ earlier' =
          IF Cardinality({i \in 1..Len(ProbeCalls) : earlier[i].made}) < MaxRemembered
          THEN [earlier EXCEPT ![ProbeIndex] = [made |-> TRUE, result |-> result]]
          ELSE earlier
    /\ UNCHANGED tables

NextCalls ==
    \/ Invoke
    \/ ReturnRemembered

SpecCalls == Init /\ [][NextCalls]_vars

-----------------------------------------------------------------------------
(* Properties.  Done(name) is a call of the formula that has just returned  *)
(* or raised.                                                               *)

Done(name) == pc = "done" /\ call.name = name

Abs(x) == IF x < 0 THEN -x ELSE x

\* C1: a colour sent through RGBToCMYK and then through cmykToRgb comes back
\* within 1 of the original on every channel.
C1_CmykRoundTripWithinOne ==
    (Done("RGBToCMYK") /\ result.ok) =>
        LET back == cmykToRgb(result.val.c, result.val.m, result.val.y, result.val.k)
        IN  /\ Abs(back.r - call.args[1]) <= 1
            /\ Abs(back.g - call.args[2]) <= 1
            /\ Abs(back.b - call.args[3]) <= 1

\* C2: a call of any formula with a hex argument that is not '#' followed by
\* exactly six hex digits is rejected with an error, ColorName and
\* ColorPreviewFormatter (whose argument is a comma-separated list of hex
\* values) included.
C2_MalformedHexRejected ==
    LET wellFormed(h) == Len(h) = 7 /\ h[1] = "#" /\ \A i \in 2..7 : IsHexDigit(h[i])
        hexArguments ==
            IF call.name \in {"HexToRgb", "HexToHsluv", "HexToHpluv", "ColorName"}
            THEN {call.args[1]}
            ELSE IF call.name \in {"ContrastRatio", "IsAccessible", "LinearGradient"}
            THEN {call.args[1], call.args[2]}
            ELSE IF call.name = "ColorPreviewFormatter"
            THEN LET pieces == splitOnComma(call.args[1])
                 IN  {trim(pieces[i]) : i \in 1..Len(pieces)}
            ELSE {}
    IN  (pc = "done" /\ \E h \in hexArguments : ~wellFormed(h)) => ~result.ok

C4_HpluvOutputAccepted ==
    (Done("HexToHpluv") /\ result.ok) =>
        HpluvToHex_execute(result.val.h, result.val.p, result.val.l).ok

\* C5: for a valid colour the triple HexToHsluv returns is accepted by
\* HsluvToHex, and the colour HsluvToHex returns for it is within 1 of the
\* original on every channel.
C5_HsluvRoundTripWithinOne ==
    (Done("HexToHsluv") /\ result.ok) =>
        LET back == HsluvToHex_execute(result.val.h, result.val.s, result.val.l)
            orig == hexToRgb(call.args[1])
        IN  /\ back.ok
            /\ \A i \in 1..3 : Abs(hexToRgb(back.val)[i] - orig[i]) <= 1

\* C6: for two valid colours LinearGradient raises when steps is below 2 or
\* above 100, and otherwise returns exactly steps colours of which the first
\* is color1 and the last is color2, channel for channel.
C6_GradientLengthAndEndpoints ==
    (Done("LinearGradient")
        /\ isValidHexColor(call.args[1]) /\ isValidHexColor(call.args[2]))
    => IF call.args[3] >= 2 /\ call.args[3] <= 100
       THEN /\ result.ok
            /\ Len(result.val) = call.args[3]
            /\ hexToRgb(result.val[1]) = hexToRgb(call.args[1])
            /\ hexToRgb(result.val[call.args[3]]) = hexToRgb(call.args[2])
       ELSE ~result.ok

\* LinearGradient has returned a gradient of three or more steps between two
\* different colours.
C6_GradientReturned ==
    /\ Done("LinearGradient")
    /\ result.ok
    /\ call.args[3] >= 3
    /\ Len(result.val) = call.args[3]
    /\ hexToRgb(call.args[1]) # hexToRgb(call.args[2])

\* C7: the contrast ratio of (a, b) is the contrast ratio of (b, a).
C7_ContrastRatioSymmetric ==
    (Done("ContrastRatio") /\ result.ok) =>
        result.val = calculateContrastRatio(call.args[2], call.args[1])

\* ContrastRatio has returned for a darker first colour and a lighter second.
C7_DarkerFirstReturned ==
    /\ Done("ContrastRatio")
    /\ result.ok
    /\ getLuminance(call.args[1]) < getLuminance(call.args[2])
    /\ result.val > Hundred

\* C8: the contrast ratio is between 1 and 21, is 21.00 for black against
\* white in either order, and is 1 for two equal colours.
C8_ContrastRatioRange ==
    (Done("ContrastRatio") /\ result.ok) =>
        LET rgb1 == hexToRgb(call.args[1])
            rgb2 == hexToRgb(call.args[2])
        IN  /\ result.val >= Hundred
            /\ result.val <= 21 * Hundred
            /\ rgb1 = rgb2 => result.val = Hundred
            /\ {rgb1, rgb2} = {<<0, 0, 0>>, <<MaxChannel, MaxChannel, MaxChannel>>}
                  => result.val = 21 * Hundred

\* ContrastRatio has returned 21.00 for white against black.
C8_WhiteOnBlackReturned ==
    /\ Done("ContrastRatio")
    /\ result = Ok(21 * Hundred)
    /\ hexToRgb(call.args[1]) = <<MaxChannel, MaxChannel, MaxChannel>>
    /\ hexToRgb(call.args[2]) = <<0, 0, 0>>

\* C9: IsAccessible answers true exactly when the contrast ratio reaches the
\* threshold of the level and size: 4.5 for AA small, 3.0 for AA large, 7.0
\* for AAA small, 4.5 for AAA large.  A ratio of exactly 3.0 passes AA large
\* and fails AA small.
C9_AccessibilityThresholds ==
    (Done("IsAccessible") /\ result.ok) =>
        LET ratio == calculateContrastRatio(call.args[1], call.args[2])
            level == call.args[3]
            size  == call.args[4]
            threshold == IF level = "AA"
                         THEN (IF size = "large" THEN 300 ELSE 450)
                         ELSE (IF size = "large" THEN 450 ELSE 700)
        IN  result.val = (ratio >= threshold)

\* IsAccessible has answered true for AA large on a pair whose ratio is
\* exactly 3.00.
C9_ExactlyThreePassesLarge ==
    /\ Done("IsAccessible")
    /\ result = Ok(TRUE)
    /\ call.args[3] = "AA" /\ call.args[4] = "large"
    /\ calculateContrastRatio(call.args[1], call.args[2]) = 300

C14_CoolBetween30And210 ==
    (Done("IsWarmOrCool") /\ isValidHexColor(call.args[1])) =>
        LET h == Hsluv_hexToHsluv(call.args[1])[1]
        IN  /\ result.ok
            /\ result.val \in {"Cool", "Warm"}
            /\ result.val = "Cool" <=> (h >= 30000000 /\ h <= 210000000)

\* IsWarmOrCool has answered 'Warm' for a hue less than a hundredth of a
\* degree above 210.
C14_JustAbove210Warm ==
    /\ Done("IsWarmOrCool")
    /\ result = Ok("Warm")
    /\ Hsluv_hexToHsluv(call.args[1])[1] > 210000000
    /\ Hsluv_hexToHsluv(call.args[1])[1] < 210010000

C17_HexOutputUppercase ==
    LET upper(h) == /\ Len(h) = 7
                    /\ h[1] = "#"
                    /\ \A i \in 2..7 : \E d \in 1..16 : h[i] = UpperDigits[d]
    IN  /\ (pc = "done" /\ call.name \in {"MixColors", "Tint", "Shade"} /\ result.ok)
               => upper(result.val)
        /\ (Done("LinearGradient") /\ result.ok)
               => \A i \in 1..Len(result.val) : upper(result.val[i])

BulkFormulas ==
    {"MonochromaticScheme", "AnalogousScheme", "TriadicScheme", "TetradicScheme",
     "LinearGradient"}

\* C20 as stated: in a bulk call no pass depends on another pass's output, so
\* the passes run apart give the same list as the sequential loop.
C20_StepsIndependent ==
    (pc = "done" /\ call.name \in BulkFormulas /\ result.ok)
    => result.val = StepsApart(call.name, call.args)

\* C20: the passes of MonochromaticScheme, TetradicScheme and LinearGradient
\* are computed from the call's inputs and the index only, so run apart they
\* give the list of the sequential loop.  The passes of AnalogousScheme and
\* TriadicScheme turn the hue the pass before left on the object: element
\* k + 1 of the sequential list has the hue (h + k * angle) mod 360, a
\* function of the inputs and k, but the passes run apart all give the hue
\* h + angle, a different list as soon as the second and third colours differ.
C20_IndependentUnlessHueCarried ==
    /\ (pc = "done" /\ call.name \in {"MonochromaticScheme", "TetradicScheme", "LinearGradient"}
           /\ result.ok)
       => result.val = StepsApart(call.name, call.args)
    /\ (pc = "done" /\ call.name \in {"AnalogousScheme", "TriadicScheme"} /\ result.ok)
       => LET hsl == Hsluv_hexToHsluv(call.args[1])
              angle == IF call.name = "TriadicScheme" THEN 120
                       ELSE IF Len(call.args) = 3 THEN call.args[3] ELSE 30
              apart == StepsApart(call.name, call.args)
          IN  /\ \A k \in 1..(Len(result.val) - 1) :
                    result.val[k + 1] = Hsluv_hsluvToHex(
                        <<(hsl[1] + ((k * angle) % 360) * 1000000) % 360000000,
                          hsl[2], hsl[3]>>)
              /\ Len(apart) = Len(result.val)
              /\ \A k \in 1..Len(apart) : k >= 2 => apart[k] = result.val[2]
              /\ (Len(result.val) >= 3 /\ result.val[3] # result.val[2])
                 => apart # result.val

\* AnalogousScheme has returned three colours and its passes run apart give
\* another list.
C20_HueCarriedAcrossPasses ==
    /\ Done("AnalogousScheme")
    /\ result.ok
    /\ Len(result.val) = 3
    /\ StepsApart(call.name, call.args) # result.val

C21_MixedChannels ==
    /\ (Done("MixColors") /\ isValidHexColor(call.args[1]) /\ isValidHexColor(call.args[2]))
       => LET rgb1 == hexToRgb(call.args[1])
              rgb2 == hexToRgb(call.args[2])
              ratio == call.args[3]
          IN  IF ratio >= 0 /\ ratio <= 100
              THEN /\ result.ok
                   /\ isValidHexColor(result.val)
                   /\ \A i \in 1..3 :
                         LET out == hexToRgb(result.val)[i]
                         IN  /\ out = (2 * (rgb1[i] * (100 - ratio) + rgb2[i] * ratio) + 100)
                                         \div 200
                             /\ out >= Min2(rgb1[i], rgb2[i])
                             /\ out <= Max2(rgb1[i], rgb2[i])
                   /\ ratio = 0 => hexToRgb(result.val) = rgb1
                   /\ ratio = 100 => hexToRgb(result.val) = rgb2
              ELSE ~result.ok
    /\ (Done("Tint") /\ isValidHexColor(call.args[1]))
       => IF call.args[2] >= 0 /\ call.args[2] <= 100
          THEN result = MixColors_execute(call.args[1],
                                          <<"#", "F", "F", "F", "F", "F", "F">>, call.args[2])
          ELSE ~result.ok
    /\ (Done("Shade") /\ isValidHexColor(call.args[1]))
       => IF call.args[2] >= 0 /\ call.args[2] <= 100
          THEN result = MixColors_execute(call.args[1],
                                          <<"#", "0", "0", "0", "0", "0", "0">>, call.args[2])
          ELSE ~result.ok

\* MixColors has returned a colour strictly between two different colours,
\* nearer to the first.
C21_MixedNearerFirst ==
    /\ Done("MixColors")
    /\ result.ok
    /\ call.args[3] = 30
    /\ hexToRgb(call.args[1])[1] = 255
    /\ hexToRgb(call.args[2])[1] = 0
    /\ hexToRgb(result.val)[1] = 179

\* C22: LinearGradient('#FF0000', '#00FF00', 5) returns five colours whose
\* channels are (255,0,0), (191,64,0), (127,128,0), (63,191,0), (0,255,0).
C22_ReadmeGradient ==
    (/\ Done("LinearGradient")
     /\ call.args[3] = 5
     /\ call.args[1] = <<"#", "F", "F", "0", "0", "0", "0">>
     /\ call.args[2] = <<"#", "0", "0", "F", "F", "0", "0">>)
    => /\ result.ok
       /\ Len(result.val) = 5
       /\ [n \in 1..5 |-> hexToRgb(result.val[n])]
             = << <<255, 0, 0>>, <<191, 64, 0>>, <<127, 128, 0>>, <<63, 191, 0>>,
                  <<0, 255, 0>> >>

\* C23: for every h in [0, 360] and every degrees value, positive or negative,
\* rotateHue(h, degrees) lies in [0, 360) and is congruent to h + degrees
\* modulo 360.
C23_RotatedHueNormalised ==
    Done("rotateHue") =>
        /\ result.val >= 0
        /\ result.val < 360000000
        /\ (result.val - (call.args[1] + call.args[2]) * 1000000) % 360000000 = 0

\* C24: every colour of the list that ColorPreviewFormatter's normalizeColor
\* accepts becomes '#' followed by exactly six hex digits, the others are
\* skipped, and the call raises only when no colour of the list is accepted.
C24_PreviewFillsSixDigits ==
    Done("ColorPreviewFormatter") =>
        LET pieces == splitOnComma(call.args[1])
            fills == [i \in 1..Len(pieces) |-> normalizeColor(pieces[i])]
        IN  /\ \A i \in 1..Len(pieces) : fills[i] # <<>> => isValidHexColor(fills[i])
            /\ result.ok <=> \E i \in 1..Len(pieces) : fills[i] # <<>>
            /\ result.ok => \A n \in 1..Len(result.val) : isValidHexColor(result.val[n])

\* C25: for every channel value v in 0..255 getLuminance takes the linear
\* segment (v/255 divided by 12.92) exactly when v/255 is at most 0.04045,
\* and the 2.4 power law otherwise: the threshold of the code selects the
\* branch the sRGB threshold selects.
C25_SrgbThresholdBranch ==
    Done("getLuminance") =>
        LET rgb == hexToRgb(call.args[1])
            srgb(v) == IF 100000 * v <= 4045 * 255
                       THEN (2 * 20000000 * v + 255 * 1292) \div (2 * 255 * 1292)
                       ELSE PowTable[v + 1]
        IN  /\ \A i \in 1..3 : usesLinearSegment(rgb[i]) <=> 100000 * rgb[i] <= 4045 * 255
            /\ result.val = 2126 * srgb(rgb[1]) + 7152 * srgb(rgb[2]) + 722 * srgb(rgb[3])

\* getLuminance has returned for the last channel value of the linear
\* segment, 10.
C25_LastLinearChannel ==
    /\ Done("getLuminance")
    /\ hexToRgb(call.args[1]) = <<10, 10, 10>>
    /\ usesLinearSegment(10)
    /\ ~usesLinearSegment(11)
    /\ result.val = 10000 * 607

C27_SimulatedChannelsInRange ==
    (/\ Done("SimulateColorBlindness")
     /\ isValidHexColor(call.args[1])
     /\ call.args[2] \in {"protanopia", "deuteranopia", "tritanopia"})
    => LET rgb == hexToRgb(call.args[1])
           out == simulateColorBlindness(rgb, call.args[2])
       IN  /\ \A i \in 1..3 : out[i] >= 0 /\ out[i] <= 255
           /\ result.ok
           /\ isValidHexColor(result.val)
           /\ hexToRgb(result.val) = out
           /\ (rgb[1] = rgb[2] /\ rgb[2] = rgb[3]) => hexToRgb(result.val) = rgb

\* SimulateColorBlindness has returned a channel of 255 for a colour that is
\* no grey: the projection reaches the top of the range without passing it.
C27_FullChannelKept ==
    /\ Done("SimulateColorBlindness")
    /\ result.ok
    /\ hexToRgb(call.args[1]) = <<255, 255, 0>>
    /\ call.args[2] = "protanopia"
    /\ hexToRgb(result.val) = <<255, 255, 62>>

\* C28: for level AA and a valid background SuggestTextColor never returns
\* 'No sufficiently contrasting color found': black or white reaches a
\* contrast ratio of 4.5 against the background.
C28_AlwaysAColourAtAA ==
    (Done("SuggestTextColor") /\ isValidHexColor(call.args[1]) /\ call.args[2] = "AA")
    => /\ result.ok
       /\ result.val # <<"No sufficiently contrasting color found">>
       /\ \/ calculateContrastRatio(call.args[1], <<"#", "0", "0", "0", "0", "0", "0">>) >= 450
          \/ calculateContrastRatio(call.args[1], <<"#", "F", "F", "F", "F", "F", "F">>) >= 450

\* SuggestTextColor has returned white at AA for a background that black
\* misses the threshold against by a hundredth.
C28_BlackJustBelowAA ==
    /\ Done("SuggestTextColor")
    /\ call.args[2] = "AA"
    /\ result = Ok(<<"#", "F", "F", "F", "F", "F", "F">>)
    /\ calculateContrastRatio(call.args[1], <<"#", "0", "0", "0", "0", "0", "0">>) = 449

=============================================================================
